---------------------------- MODULE Spec2Model ----------------------------
(***************************************************************************)
(* A model of the multi-provider inference adapter layer (aiService and    *)
(* its callers).  The repository holds several copies of the service; the  *)
(* copies are told apart by the file that holds them:                      *)
(*   "part_006"  src/unnamed/part_006      (provider router, five providers) *)
(*   "part_007"  src/unnamed/part_007      (earlier provider router)         *)
(*   "grok"      src/services/aiService.ts (xAI-only service)                *)
(* Text is a sequence of one-character strings.                            *)
(***************************************************************************)
EXTENDS Integers, Sequences, FiniteSets, TLC

VARIABLES
  sse_pc,        \* sseLines: "read" | "yield" | "done"
  sse_input,     \* every byte reader.read() has returned so far
  sse_split,     \* whether some read has ended in the middle of a line
  sse_pending,   \* TextDecoder: an incomplete multi-byte sequence held back
  buffer,        \* sseLines: let buffer
  sse_out,       \* the lines yielded so far
  impl,          \* performDeepSearch: which copy of the service runs
  providerKey,   \* performDeepSearch: the provider branch taken
  apiKey,        \* performDeepSearch: the key the lookup returned, or UNDEF
  pc,            \* "idle" | "requesting" | "streaming" | "resolved" | "rejected"
  res,           \* the response of fetch / generateContentStream, or NoRes
  received,      \* every line or chunk the transport has delivered so far
  fullText,      \* let fullText
  currentEvent,  \* let currentEvent (Anthropic branch of part_006)
  progress,      \* the arguments of the onChunk calls, in call order
  sources,       \* const sources
  sourceMap,     \* const sourceMap (Set of urls)
  images,        \* const images
  result,        \* the SearchResponse the promise resolved with, or NoResult
  fetches,       \* number of provider requests sent
  transport,     \* the response stream: "none" | "open" | "closed" | "aborted"
  query,         \* performDeepSearch argument: the text of the new turn
  history,       \* performDeepSearch argument: the earlier turns
  attachments,   \* performDeepSearch argument: the files of the new turn
  request,       \* the message list of the outgoing request, or NoRequest
  resolver,      \* credential resolution: which copy of getApiKeyForProvider runs
  provider,      \* the provider whose key is looked up
  env,           \* the build environment: variable name -> value or UNDEF
  baseUrlEnv,    \* the build environment: VITE_<PROVIDER>_BASE_URL of the provider
  formKey,       \* UserProfileModal: formData.apiKeys[provider]
  storedKey,     \* the per-user stored key of the provider, or UNDEF
  lookup,        \* the last getApiKeyForProvider call, or NoLookup
  ui,            \* chat UI: which copy of the App component runs
  messages,      \* const [messages, setMessages]
  appState,      \* const [appState, setAppState]
  apiKeyReady,   \* const [apiKeyReady, setApiKeyReady] (part_001)
  rendered,      \* App.tsx: per shown message, the messages of the render that
                 \* last rendered its (memoised) MessageItem
  calls,         \* the performDeepSearch calls in flight
  started,       \* number of handleSearch / handleRegenerate runs so far
  currentSessionId,  \* const [currentSessionId, setCurrentSessionId]: NULL or "session"
  invoked,       \* number of performDeepSearch calls made so far
  requests,      \* number of inference requests sent to a provider so far
  selectedModel, \* buildSystemInstruction argument: the model's persona prefix
  userProfile,   \* buildSystemInstruction argument: bio, preferences, apps
  focusMode,     \* buildSystemInstruction argument
  systemInstruction, \* the text built, or NoInstruction
  invs,          \* two performDeepSearch calls in flight: the locals of each
  overlapped,    \* whether an item reached one call while the other was mid-stream
  localStorage,  \* localStorage[STORAGE_KEY]: the persisted session list
  session,       \* saveSession argument: the session to save, or NoSession
  sessions,      \* saveSession: let sessions (the list it returns)
  save_pc        \* saveSession: "idle" | "setItem" | "returned"

sseVars == <<sse_pc, sse_input, sse_split, sse_pending, buffer, sse_out>>

reqVars == <<impl, providerKey, apiKey, pc, res, received, fullText, currentEvent,
             progress, sources, sourceMap, images, result, fetches, transport>>

argVars == <<query, history, attachments, request>>

credVars == <<resolver, provider, env, baseUrlEnv, formKey, storedKey, lookup>>

uiVars == <<ui, messages, rendered, appState, apiKeyReady, calls, started,
            currentSessionId, invoked, requests>>

sysVars == <<selectedModel, userProfile, focusMode, systemInstruction>>

pairVars == <<invs, overlapped>>

storeVars == <<localStorage, session, sessions, save_pc>>

notSse == <<reqVars, argVars, credVars, uiVars, sysVars, pairVars, storeVars>>

notReq == <<sseVars, argVars, credVars, uiVars, sysVars, pairVars, storeVars>>

notCred == <<sseVars, reqVars, argVars, uiVars, sysVars, pairVars, storeVars>>

notUi == <<sseVars, reqVars, argVars, credVars, sysVars, pairVars, storeVars>>

notArg == <<sseVars, apiKey, pc, res, received, fullText, currentEvent, progress, sources,
            sourceMap, images, result, fetches, transport, credVars, uiVars, sysVars,
            pairVars, storeVars>>

notSys == <<sseVars, reqVars, argVars, credVars, uiVars, pairVars, storeVars>>

notPair == <<sseVars, reqVars, argVars, credVars, uiVars, sysVars, storeVars>>

notStore == <<sseVars, reqVars, argVars, credVars, uiVars, sysVars, pairVars>>

vars == <<sse_pc, sse_input, sse_split, sse_pending, buffer, sse_out,
          impl, providerKey, apiKey, pc, res, received, fullText, currentEvent,
          progress, sources, sourceMap, images, result, fetches, transport,
          query, history, attachments, request,
          resolver, provider, env, baseUrlEnv, formKey, storedKey, lookup,
          ui, messages, rendered, appState, apiKeyReady, calls, started,
          currentSessionId, invoked, requests,
          selectedModel, userProfile, focusMode, systemInstruction,
          invs, overlapped,
          localStorage, session, sessions, save_pc>>

(***************************************************************************)
(* Bounds                                                                  *)
(***************************************************************************)
MaxInput == 5      \* bytes received by one sseLines run
MaxChunk == 3      \* bytes returned by one reader.read()
MaxFrames == 4     \* lines or chunks delivered to one performDeepSearch call
MaxHistory == 2    \* turns of the history passed to performDeepSearch
MaxAttach == 1     \* attachments of the new turn
MaxCalls == 3      \* handleSearch / handleRegenerate runs of one UI session
MaxSessions == 2   \* sessions in localStorage when saveSession is called
MaxPairFrames == 2 \* lines or chunks delivered to each of two concurrent calls

(***************************************************************************)
(* Text helpers                                                            *)
(***************************************************************************)
NL == "\n"
SP == " "
LEAD == "L"        \* first byte of a two-byte UTF-8 sequence
CONT == "C"        \* continuation byte
FFFD == "?"        \* U+FFFD, the decoder's replacement character
WIDE == "W"        \* the character a complete LEAD CONT pair decodes to

Bytes == {"a", "b", "c", NL, SP, LEAD, CONT}

RECURSIVE Concat(_)
Concat(ss) == IF ss = <<>> THEN <<>> ELSE Head(ss) \o Concat(Tail(ss))

\* String.prototype.indexOf("\n"): 0-based index of the first newline, or -1
RECURSIVE IndexOfNL(_)
IndexOfNL(s) ==
  IF s = <<>> THEN -1
  ELSE IF Head(s) = NL THEN 0
  ELSE LET r == IndexOfNL(Tail(s)) IN IF r = -1 THEN -1 ELSE r + 1

\* String.prototype.slice(from, to) with 0-based, end-exclusive indices
Slice(s, from, to) == SubSeq(s, from + 1, to)

IsSpace(c) == c \in {SP, NL}

\* String.prototype.trimEnd()
RECURSIVE TrimEnd(_)
TrimEnd(s) ==
  IF s = <<>> THEN <<>>
  ELSE IF IsSpace(s[Len(s)]) THEN TrimEnd(SubSeq(s, 1, Len(s) - 1))
  ELSE s

\* String.prototype.trim()
RECURSIVE TrimStart(_)
TrimStart(s) ==
  IF s = <<>> THEN <<>>
  ELSE IF IsSpace(Head(s)) THEN TrimStart(Tail(s))
  ELSE s

Trim(s) == TrimStart(TrimEnd(s))

\* undefined, where a text is expected
UNDEF == <<"undefined">>

\* JavaScript truthiness of a string | undefined
Truthy(v) == v # UNDEF /\ v # <<>>

(***************************************************************************)
(* TextDecoder("utf-8").decode(value, {stream: true}): a byte sequence is  *)
(* decoded left to right; an incomplete sequence at the end of a chunk is  *)
(* held back for the next call.  Returns [text, pending].                  *)
(***************************************************************************)
RECURSIVE DecodeFrom(_, _, _)
DecodeFrom(pending, bytes, acc) ==
  IF bytes = <<>> THEN [text |-> acc, pending |-> pending]
  ELSE LET b == Head(bytes) IN
    IF pending = <<LEAD>>
      THEN IF b = CONT
             THEN DecodeFrom(<<>>, Tail(bytes), Append(acc, WIDE))
             ELSE DecodeFrom(<<>>, bytes, Append(acc, FFFD))
      ELSE IF b = LEAD THEN DecodeFrom(<<LEAD>>, Tail(bytes), acc)
      ELSE IF b = CONT THEN DecodeFrom(<<>>, Tail(bytes), Append(acc, FFFD))
      ELSE DecodeFrom(<<>>, Tail(bytes), Append(acc, b))

DecodeStream(pending, bytes) == DecodeFrom(pending, bytes, <<>>)

\* buffer += decoder.decode(...): the next read starts from the text kept
BufferDropped(buf, text) == text

BufferAppend(buf, text) == buf \o text

\* the last statement of sseLines: no final line is yielded
FlushNothing(buf, out) == out

\* if (buffer.length > 0) yield buffer.trimEnd()
FlushFinal(buf, out) == IF Len(buf) > 0 THEN Append(out, TrimEnd(buf)) ELSE out

(***************************************************************************)
(* sseLines(stream): an async generator over the lines of a byte stream    *)
(***************************************************************************)
SseInit ==
  /\ sse_pc = "read"
  /\ sse_input = <<>>
  /\ sse_split = FALSE
  /\ sse_pending = <<>>
  /\ buffer = <<>>
  /\ sse_out = <<>>

Min(a, b) == IF a < b THEN a ELSE b

\* reader.read() returns {value, done: false}; the text is appended to buffer
SseRead ==
  /\ sse_pc = "read"
  /\ \E n \in 1..Min(MaxChunk, MaxInput - Len(sse_input)) : \E value \in [1..n -> Bytes] :
       /\ LET d == DecodeStream(sse_pending, value)
              nb == BufferAppend(buffer, d.text)
          IN /\ sse_input' = sse_input \o value
             /\ sse_split' = (sse_split \/ (nb # <<>> /\ nb[Len(nb)] # NL))
             /\ sse_pending' = d.pending
             /\ buffer' = nb
             /\ sse_pc' = IF IndexOfNL(nb) # -1 THEN "yield" ELSE "read"
  /\ UNCHANGED sse_out
  /\ UNCHANGED notSse

\* one turn of the inner while loop: the line before the first newline is
\* cut off the buffer and yielded
SseYield ==
  /\ sse_pc = "yield"
  /\ LET newlineIndex == IndexOfNL(buffer)
         line == Slice(buffer, 0, newlineIndex)
         rest == Slice(buffer, newlineIndex + 1, Len(buffer))
     IN /\ buffer' = rest
        /\ sse_out' = Append(sse_out, TrimEnd(line))
        /\ sse_pc' = IF IndexOfNL(rest) # -1 THEN "yield" ELSE "read"
  /\ UNCHANGED <<sse_input, sse_split, sse_pending>>
  /\ UNCHANGED notSse

\* reader.read() returns {done: true}: the loop ends and the rest is flushed
SseEnd ==
  /\ sse_pc = "read"
  /\ sse_out' = FlushFinal(buffer, sse_out)
  /\ sse_pc' = "done"
  /\ UNCHANGED <<sse_input, sse_split, sse_pending, buffer>>
  /\ UNCHANGED notSse

SseNext == SseRead \/ SseYield \/ SseEnd


(***************************************************************************)
(* performDeepSearch: one invocation, from dispatch to settlement          *)
(***************************************************************************)
Impls == {"part_006", "part_007", "grok"}

\* "openai" stands for the OpenAI-compatible branch (xai, openai, moonshot)
ProviderKeys == {"google", "anthropic", "openai"}

NoRes == [ok |-> FALSE, body |-> FALSE, sent |-> FALSE]
NoResult == [settled |-> FALSE]

SENTINEL == <<"Data retrieval failed. The void returned nothing.">>

D1 == <<"H", "e", "l">>
D2 == <<"l", "o">>
Contents == {<<>>, D1, D2}

\* the lines of an OpenAI-compatible stream, as sseLines yields them:
\*   data     data: {"choices":[{"delta":{"content": text}}]}  (<<>>: no content)
\*   malformed  data: <not JSON>
\*   done     data: [DONE]
\*   other    a line that does not start with "data:"
OpenAILines ==
  {[kind |-> "data", name |-> "", text |-> c] : c \in Contents}
    \cup {[kind |-> k, name |-> "", text |-> <<>>] : k \in {"malformed", "done", "other"}}

\* the lines of a Messages stream:
\*   event    event: <name>
\*   data     data: {"type": name, "delta": {"text": text}}
EventNames == {"content_block_delta", "message_stop", "ping"}
AnthropicLines ==
  {[kind |-> "event", name |-> e, text |-> <<>>] : e \in EventNames}
    \cup {[kind |-> "data", name |-> t, text |-> c] :
            t \in {"content_block_delta", "message_stop"}, c \in {<<>>, D1}}
    \cup {[kind |-> k, name |-> "", text |-> <<>>] : k \in {"malformed", "other"}}

\* the chunks of the SDK's async iterator: c.text, the inlineData parts and
\* the groundingChunks of candidates[0] (a title of "" is a missing title)
GC(u, t) == [uri |-> u, title |-> t]
GeminiChunks ==
  {[kind |-> "chunk", text |-> c, inline |-> 0, grounding |-> <<>>] : c \in Contents}
    \cup {[kind |-> "chunk", text |-> <<>>, inline |-> 1, grounding |-> <<>>]}
    \cup {[kind |-> "chunk", text |-> <<>>, inline |-> 0, grounding |-> g] :
            g \in {<<GC("u1", "t1")>>, <<GC("u1", "t2")>>, <<GC("u2", "t1")>>,
                   <<GC("u1", "")>>, <<GC("u2", "t2"), GC("u2", "t1")>>}}

\* the copy that runs and the branch its model selects
ImplChoice ==
  /\ impl \in Impls
  /\ providerKey \in ProviderKeys
  /\ impl = "grok" => providerKey = "openai"

\* the keys the lookup of each copy can return: part_006 returns a key only
\* when its trim() is not empty; part_007 and services/aiService.ts also
\* return an environment value as it is
ResolvedKeys ==
  IF impl = "part_006" THEN {UNDEF, <<"k">>} ELSE {UNDEF, <<>>, <<SP>>, <<"k">>}

ReqInit ==
  /\ apiKey \in ResolvedKeys
  /\ pc = "idle"
  /\ res = NoRes
  /\ received = <<>>
  /\ fullText = <<>>
  /\ currentEvent = ""
  /\ progress = <<>>
  /\ sources = <<>>
  /\ sourceMap = {}
  /\ images = <<>>
  /\ result = NoResult
  /\ fetches = 0
  /\ transport = "none"

\* the state of the stream loop that one line or chunk can change
Loop == [fullText |-> fullText, currentEvent |-> currentEvent, progress |-> progress,
         sources |-> sources, sourceMap |-> sourceMap, images |-> images,
         brk |-> FALSE]

\* a loop that hands the delta itself to onChunk
AddDeltaAlone(st, delta) ==
  [st EXCEPT !.fullText = st.fullText \o delta,
             !.progress = Append(st.progress, delta)]

\* fullText += delta; onChunk?.(fullText)
AddDelta(st, delta) ==
  [st EXCEPT !.fullText = st.fullText \o delta,
             !.progress = Append(st.progress, st.fullText \o delta)]

\* a loop that never recognises the sentinel
IsDoneNever(line) == FALSE

\* if (dataStr === "[DONE]") break
IsDone(line) == line.kind = "done"

\* a loop that gives up at a line it cannot parse
StepOpenAIStrict(st, line) ==
  IF line.kind = "other" THEN st
  ELSE IF IsDone(line) \/ line.kind = "malformed" THEN [st EXCEPT !.brk = TRUE]
  ELSE IF line.text # <<>> THEN AddDelta(st, line.text)
  ELSE st

\* the body of the OpenAI-compatible for-await loop (the same in all copies)
StepOpenAI(st, line) ==
  IF line.kind = "other" THEN st
  ELSE IF IsDone(line) THEN [st EXCEPT !.brk = TRUE]
  ELSE IF line.kind # "data" THEN st
  ELSE IF line.text # <<>> THEN AddDelta(st, line.text)
  ELSE st

\* the body of the Anthropic for-await loop of part_006
StepAnthropic006(st, line) ==
  IF line.kind = "other" THEN st
  ELSE IF line.kind = "event" THEN [st EXCEPT !.currentEvent = line.name]
  ELSE IF line.kind = "malformed" THEN st
  ELSE LET st1 == IF st.currentEvent = "content_block_delta" /\ line.text # <<>>
                    THEN AddDelta(st, line.text) ELSE st
       IN IF st.currentEvent = "message_stop" THEN [st1 EXCEPT !.brk = TRUE] ELSE st1

\* a loop that takes the text of every data line, whatever its type
StepAnthropicAnyType(st, line) ==
  IF line.kind # "data" THEN st
  ELSE IF line.text # <<>> THEN AddDelta(st, line.text)
  ELSE st

\* the body of the Anthropic for-await loop of part_007
StepAnthropic007(st, line) ==
  IF line.kind # "data" THEN st
  ELSE IF line.name = "content_block_delta" /\ line.text # <<>>
    THEN AddDelta(st, line.text)
  ELSE st

StepAnthropic(st, line) ==
  IF impl = "part_006" THEN StepAnthropic006(st, line) ELSE StepAnthropic007(st, line)

\* images.push(`data:${mimeType};base64,${base64Str}`) for each inlineData part
AddImages(st, chunk) ==
  IF chunk.inline > 0 THEN [st EXCEPT !.images = Append(st.images, "data:image/png;base64")]
  ELSE st

\* the grounding loop of part_006: a Set of seen urls gates the insertion
RECURSIVE AddGrounding006(_, _)
AddGrounding006(st, gcs) ==
  IF gcs = <<>> THEN st
  ELSE LET gc == Head(gcs) IN
    IF gc.uri # "" /\ gc.title # "" /\ gc.uri \notin st.sourceMap
      THEN AddGrounding006(
             [st EXCEPT !.sourceMap = st.sourceMap \cup {gc.uri},
                        !.sources = Append(st.sources, [title |-> gc.title, url |-> gc.uri])],
             Tail(gcs))
      ELSE AddGrounding006(st, Tail(gcs))

\* the grounding loop of part_007: every titled citation is pushed
RECURSIVE AddGrounding007(_, _)
AddGrounding007(st, gcs) ==
  IF gcs = <<>> THEN st
  ELSE LET gc == Head(gcs) IN
    IF gc.uri # "" /\ gc.title # ""
      THEN AddGrounding007(
             [st EXCEPT !.sources = Append(st.sources, [title |-> gc.title, url |-> gc.uri])],
             Tail(gcs))
      ELSE AddGrounding007(st, Tail(gcs))

\* the body of the Gemini for-await loop
StepGemini(st, chunk) ==
  LET st1 == IF chunk.text # <<>> THEN AddDelta(st, chunk.text) ELSE st IN
  IF impl = "part_006"
    THEN AddGrounding006(AddImages(st1, chunk), chunk.grounding)
    ELSE AddGrounding007(st1, chunk.grounding)

\* if (!fullText [&& images.length === 0]) fullText = "Data retrieval failed. ..."
FinalText(text, imgs) ==
  IF impl = "part_007" THEN text
  ELSE IF providerKey = "google" \/ impl = "grok"
    THEN (IF text = <<>> /\ imgs = <<>> THEN SENTINEL ELSE text)
  ELSE (IF text = <<>> THEN SENTINEL ELSE text)

\* return { text: fullText, sources, images }
Response(st) ==
  [settled |-> TRUE,
   text |-> FinalText(st.fullText, st.images),
   sources |-> st.sources,
   images |-> IF providerKey = "google" /\ impl = "part_006" THEN st.images ELSE <<>>]

\* a dispatch that does not look at res.ok
OutcomeIgnoringStatus(r) == IF ~r.body THEN "rejected" ELSE "streaming"

\* a dispatch that starts over after a refused request
OutcomeRetry(r) ==
  IF ~r.ok THEN "idle" ELSE IF ~r.body THEN "rejected" ELSE "streaming"

\* if (!res.ok) throw ...; if (!res.body) throw ...
DispatchOutcome(r) ==
  IF ~r.ok THEN "rejected" ELSE IF ~r.body THEN "rejected" ELSE "streaming"

\* a key check that lets every lookup result pass
KeyNeverMissing(k) == FALSE

\* if (!apiKey) throw new Error("Missing API Key ...")
KeyMissing(k) == ~Truthy(k)

\* performDeepSearch is called: the key is looked up and the request is sent
Dispatch ==
  /\ pc = "idle"
  /\ IF KeyMissing(apiKey)
       THEN pc' = "rejected" /\ fetches' = fetches
       ELSE pc' = "requesting" /\ fetches' = fetches + 1
  /\ UNCHANGED <<impl, providerKey, apiKey, res, received, fullText, currentEvent, progress,
                 sources, sourceMap, images, result, transport>>
  /\ UNCHANGED notReq

\* await fetch(...) / await ai.models.generateContentStream(...) settles; for
\* the SDK a failure is an exception (ok = FALSE) and a stream always follows.
\* A response that has a body keeps delivering it whether or not the loop is
\* entered (an error response is thrown away with its body unread or read as
\* one text).
Respond ==
  /\ pc = "requesting"
  /\ \E ok \in BOOLEAN, body \in BOOLEAN :
       /\ providerKey = "google" => body = ok
       /\ res' = [ok |-> ok, body |-> body, sent |-> TRUE]
       /\ pc' = DispatchOutcome(res')
       /\ transport' = IF body THEN "open" ELSE "none"
  /\ UNCHANGED <<impl, providerKey, apiKey, received, fullText, currentEvent, progress,
                 sources, sourceMap, images, result, fetches>>
  /\ UNCHANGED notReq

\* const reader = stream.getReader() of sseLines: the loop of an SSE branch
\* was entered; no copy cancels the reader or releases its lock afterwards
ReaderTaken == providerKey # "google" /\ res.sent /\ res.ok /\ res.body

\* the loop state after `st`, and the settlement when the loop was left
Continue(st, item) ==
  /\ received' = Append(received, item)
  /\ currentEvent' = st.currentEvent
  /\ progress' = st.progress
  /\ sources' = st.sources
  /\ sourceMap' = st.sourceMap
  /\ images' = st.images
  /\ IF st.brk
       THEN /\ result' = Response(st)
            /\ fullText' = result'.text
            /\ pc' = "resolved"
       ELSE /\ result' = result
            /\ fullText' = st.fullText
            /\ pc' = "streaming"
  /\ UNCHANGED <<impl, providerKey, apiKey, res, fetches, transport>>
  /\ UNCHANGED notReq

\* sseLines yields a line to the OpenAI-compatible loop
OnLineOpenAI ==
  /\ pc = "streaming" /\ providerKey = "openai"
  /\ Len(received) < MaxFrames
  /\ \E line \in OpenAILines : Continue(StepOpenAI(Loop, line), line)

\* sseLines yields a line to the Anthropic loop
OnLineAnthropic ==
  /\ pc = "streaming" /\ providerKey = "anthropic"
  /\ Len(received) < MaxFrames
  /\ \E line \in AnthropicLines : Continue(StepAnthropic(Loop, line), line)

\* the SDK's iterator yields a chunk to the Gemini loop
OnChunkGemini ==
  /\ pc = "streaming" /\ providerKey = "google"
  /\ Len(received) < MaxFrames
  /\ \E chunk \in GeminiChunks : Continue(StepGemini(Loop, chunk), chunk)

\* a loop that keeps waiting for the sentinel after the stream has closed
StreamEndWaits ==
  /\ pc = "streaming"
  /\ transport = "open"
  /\ transport' = "closed"
  /\ UNCHANGED <<impl, providerKey, apiKey, pc, res, received, fullText, currentEvent,
                 progress, sources, sourceMap, images, result, fetches>>
  /\ UNCHANGED notReq

\* the stream closes: the loop ends and the function returns
StreamEnd ==
  /\ pc = "streaming"
  /\ result' = Response(Loop)
  /\ fullText' = result'.text
  /\ pc' = "resolved"
  /\ transport' = "closed"
  /\ UNCHANGED <<impl, providerKey, apiKey, res, received, currentEvent, progress,
                 sources, sourceMap, images, fetches>>
  /\ UNCHANGED notReq

\* a catch that reports an emptied text before the error propagates
StreamErrorClears ==
  /\ pc = "streaming"
  /\ pc' = "rejected"
  /\ transport' = "aborted"
  /\ fullText' = <<>>
  /\ progress' = Append(progress, <<>>)
  /\ UNCHANGED <<impl, providerKey, apiKey, res, received, currentEvent,
                 sources, sourceMap, images, result, fetches>>
  /\ UNCHANGED notReq

\* reader.read() or the SDK's iterator rejects: the error propagates
StreamError ==
  /\ pc = "streaming"
  /\ pc' = "rejected"
  /\ transport' = "aborted"
  /\ UNCHANGED <<impl, providerKey, apiKey, res, received, fullText, currentEvent, progress,
                 sources, sourceMap, images, result, fetches>>
  /\ UNCHANGED notReq

\* a loop that is still fed after the invocation has settled
LateItemRead ==
  /\ pc \in {"resolved", "rejected"}
  /\ transport = "open"
  /\ Len(received) < MaxFrames
  /\ \E item \in (CASE providerKey = "openai" -> OpenAILines
                    [] providerKey = "anthropic" -> AnthropicLines
                    [] OTHER -> GeminiChunks) :
       /\ received' = Append(received, item)
       /\ progress' = (CASE providerKey = "openai" -> StepOpenAI(Loop, item)
                         [] providerKey = "anthropic" -> StepAnthropic(Loop, item)
                         [] OTHER -> StepGemini(Loop, item)).progress
  /\ UNCHANGED <<impl, providerKey, apiKey, pc, res, fullText, currentEvent,
                 sources, sourceMap, images, result, fetches, transport>>
  /\ UNCHANGED notReq

\* the transport delivers something after the loop was left (a break at the
\* sentinel, or a throw at the status check): nobody reads it
LateItem ==
  /\ pc \in {"resolved", "rejected"}
  /\ transport = "open"
  /\ Len(received) < MaxFrames
  /\ \E item \in (CASE providerKey = "openai" -> OpenAILines
                    [] providerKey = "anthropic" -> AnthropicLines
                    [] OTHER -> GeminiChunks) :
       received' = Append(received, item)
  /\ UNCHANGED <<impl, providerKey, apiKey, pc, res, fullText, currentEvent, progress,
                 sources, sourceMap, images, result, fetches, transport>>
  /\ UNCHANGED notReq

ReqNext ==
  \/ Dispatch
  \/ Respond
  \/ OnLineOpenAI
  \/ OnLineAnthropic
  \/ OnChunkGemini
  \/ StreamEnd
  \/ StreamError
  \/ LateItem

(***************************************************************************)
(* Two performDeepSearch calls in flight at once.  Everything a call       *)
(* changes is a local of the call (fullText, currentEvent, sources,        *)
(* sourceMap, images; buffer and decoder of its sseLines), so each call    *)
(* has its own copy; the module holds no variable of its own.              *)
(***************************************************************************)
Invocations == {1, 2}

\* the locals of a call whose response has just been accepted
NewInvocation ==
  [pc |-> "streaming", received |-> <<>>, fullText |-> <<>>, currentEvent |-> "",
   progress |-> <<>>, sources |-> <<>>, sourceMap |-> {}, images |-> <<>>,
   result |-> NoResult]

NoInvocations == [i \in Invocations |-> [pc |-> "off"]]

\* what the transport of a call delivers in this specification
PairItems ==
  CASE providerKey = "openai" ->
         {l \in OpenAILines : l.kind \in {"malformed", "done"} \/ l.text # <<>>}
    [] providerKey = "anthropic" ->
         {l \in AnthropicLines :
            \/ l.kind = "event" /\ l.name # "ping"
            \/ l.kind = "data" /\ l.text # <<>>}
    [] OTHER ->
         {c \in GeminiChunks : c.text # <<>> \/ c.inline > 0 \/ c.grounding = <<GC("u1", "t1")>>}

\* the body of the for-await loop of the branch taken
Step(st, item) ==
  CASE providerKey = "openai" -> StepOpenAI(st, item)
    [] providerKey = "anthropic" -> StepAnthropic(st, item)
    [] OTHER -> StepGemini(st, item)

\* a loop whose text is held by the module, one text for every call
LoopShared(i) ==
  [fullText |-> invs[1].fullText \o invs[2].fullText,
   currentEvent |-> invs[i].currentEvent, progress |-> invs[i].progress,
   sources |-> invs[i].sources, sourceMap |-> invs[i].sourceMap,
   images |-> invs[i].images, brk |-> FALSE]

\* the loop state of call i: its own locals
LoopOf(i) ==
  [fullText |-> invs[i].fullText, currentEvent |-> invs[i].currentEvent,
   progress |-> invs[i].progress, sources |-> invs[i].sources,
   sourceMap |-> invs[i].sourceMap, images |-> invs[i].images, brk |-> FALSE]

\* the locals of a call after its loop has handled `item`
AfterItem(i, item) ==
  LET st == Step(LoopOf(i), item) IN
  [pc |-> IF st.brk THEN "resolved" ELSE "streaming",
   received |-> Append(invs[i].received, item),
   fullText |-> st.fullText, currentEvent |-> st.currentEvent, progress |-> st.progress,
   sources |-> st.sources, sourceMap |-> st.sourceMap, images |-> st.images,
   result |-> IF st.brk THEN Response(st) ELSE NoResult]

PairInit ==
  /\ invs = [i \in Invocations |-> NewInvocation]
  /\ overlapped = FALSE

\* a line or chunk reaches the loop of call i
PairItem ==
  \E i \in Invocations :
    /\ invs[i].pc = "streaming"
    /\ Len(invs[i].received) < MaxPairFrames
    /\ \E item \in PairItems : invs' = [invs EXCEPT ![i] = AfterItem(i, item)]
    /\ overlapped' = (overlapped \/ \E j \in Invocations \ {i} :
                                       invs[j].pc = "streaming" /\ invs[j].received # <<>>)
    /\ UNCHANGED <<impl, providerKey>>
    /\ UNCHANGED notPair

\* the stream of call i closes: the call returns
PairEnd ==
  \E i \in Invocations :
    /\ invs[i].pc = "streaming"
    /\ invs' = [invs EXCEPT ![i].pc = "resolved", ![i].result = Response(LoopOf(i))]
    /\ UNCHANGED <<impl, providerKey, overlapped>>
    /\ UNCHANGED notPair

\* the stream of call i fails: the call throws
PairError ==
  \E i \in Invocations :
    /\ invs[i].pc = "streaming"
    /\ invs' = [invs EXCEPT ![i].pc = "rejected"]
    /\ UNCHANGED <<impl, providerKey, overlapped>>
    /\ UNCHANGED notPair

PairNext ==
  \/ PairItem
  \/ PairEnd
  \/ PairError

(***************************************************************************)
(* performDeepSearch: the request assembled from query, history and        *)
(* attachments.  A text is a sequence of tokens; NL and SP are the         *)
(* whitespace tokens.                                                      *)
(***************************************************************************)
NoRequest == <<[role |-> "none"]>>

SystemMessage == [role |-> "system", content |-> <<"SYSTEM_INSTRUCTION">>]

\* Array.prototype.join(sep) over texts
RECURSIVE Join(_, _)
Join(ts, sep) ==
  IF ts = <<>> THEN <<>>
  ELSE IF Len(ts) = 1 THEN ts[1]
  ELSE ts[1] \o sep \o Join(Tail(ts), sep)

\* the texts a turn of the conversation can carry (<<>> and <<SP>> are blank)
TurnTexts == {<<>>, <<SP>>, <<"A">>, <<"B">>}
Turns == {[role |-> r, parts |-> <<[text |-> t]>>] : r \in {"user", "model"}, t \in TurnTexts}
Queries == {<<>>, <<"Q">>, <<"A">>}
Files ==
  {[name |-> "notes.txt", type |-> "text/plain", data |-> <<"DATA">>, isText |-> TRUE],
   [name |-> "photo.png", type |-> "image/png", data |-> <<"BASE64">>, isText |-> FALSE],
   [name |-> "blob.bin", type |-> "application/octet-stream", data |-> <<"BASE64">>,
    isText |-> FALSE]}

SeqsUpTo(S, n) == UNION {[1..k -> S] : k \in 0..n}

\* GEMINI_INLINE_SUPPORTED_TYPES.includes(att.type)
InlineSupported(type) == type \in {"application/pdf", "image/png", "image/jpeg"}

\* (h.parts || []).map((p) => p?.text ?? "").join("")
PartsText(parts) == Concat([i \in 1..Len(parts) |-> parts[i].text])

\* a history conversion that puts the turns in front of each other
RECURSIVE mapHistoryReversed(_)
mapHistoryReversed(h) ==
  IF h = <<>> THEN <<>>
  ELSE LET m == [role |-> IF Head(h).role = "model" THEN "assistant" ELSE "user",
                 content |-> PartsText(Head(h).parts)]
       IN IF Len(Trim(m.content)) > 0
            THEN Append(mapHistoryReversed(Tail(h)), m)
            ELSE mapHistoryReversed(Tail(h))

\* history.map(...).filter((m) => m.content.trim().length > 0)
mapHistoryToOpenAIStyle(h) ==
  SelectSeq([i \in 1..Len(h) |->
               [role |-> IF h[i].role = "model" THEN "assistant" ELSE "user",
                content |-> PartsText(h[i].parts)]],
            LAMBDA m : Len(Trim(m.content)) > 0)

\* a context that leaves out what it cannot show as text
ContextPartTextOnly(att) ==
  IF att.isText
    THEN <<NL, "[FILE: ", att.name, "]", NL>> \o att.data \o <<NL, "[END FILE]", NL>>
    ELSE <<>>

\* contextParts of part_006 and part_007
ContextPart(att) ==
  IF att.isText
    THEN <<NL, "[FILE: ", att.name, "]", NL>> \o att.data \o <<NL, "[END FILE]", NL>>
    ELSE <<NL, "[BINARY FILE: ", att.name, " (", att.type,
           ") - Content Omitted in Text Stream]", NL>>

contextParts(atts) == [i \in 1..Len(atts) |-> ContextPart(atts[i])]

\* const finalQuery = `${contextParts.join("\n")}\n\n${query}` (.trim() in part_006)
finalQuery(q, atts) ==
  LET raw == Join(contextParts(atts), <<NL>>) \o <<NL, NL>> \o q IN
  IF impl = "part_006" THEN Trim(raw) ELSE raw

\* finalQuery || query
QueryContent(q, atts) ==
  IF impl = "part_006" /\ finalQuery(q, atts) = <<>> THEN q ELSE finalQuery(q, atts)

\* the parts of the current message in the Gemini branch of part_006
GeminiPart(att) ==
  IF att.isText
    THEN [text |-> <<NL, NL, "--- FILE ATTACHMENT: ", att.name, " ---", NL>> \o att.data
                     \o <<NL, "--- END ATTACHMENT ---", NL, NL>>]
  ELSE IF InlineSupported(att.type)
    THEN [inlineData |-> [mimeType |-> att.type, data |-> att.data]]
  ELSE [text |-> <<NL, NL, "[NOTE] Attachment skipped (unsupported type): ", att.name,
                   " (", att.type, ")", NL, NL>>]

currentParts006(q, atts) ==
  [i \in 1..Len(atts) |-> GeminiPart(atts[i])]
    \o (IF finalQuery(q, atts) # <<>> THEN <<[text |-> finalQuery(q, atts)]>> ELSE <<>>)

\* the parts of the current message in services/aiService.ts, all textual
GrokPart(att) ==
  IF att.isText
    THEN <<NL, NL, "--- FILE ATTACHMENT: ", att.name, " ---", NL>> \o att.data
           \o <<NL, "--- END ATTACHMENT ---", NL, NL>>
  ELSE IF InlineSupported(att.type)
    THEN <<NL, NL, "--- BINARY ATTACHMENT (not inline-supported in this Grok adapter): ",
           att.name, " (", att.type, ") ---", NL, "The file was provided as base64",
           NL, "--- END ATTACHMENT ---", NL, NL>>
  ELSE <<NL, NL, "--- ATTACHMENT SKIPPED: ", att.name, " (", att.type, ") unsupported ---",
         NL, NL>>

currentUserContent(q, atts) ==
  Concat([i \in 1..Len(atts) |-> GrokPart(atts[i])])
    \o (IF Len(Trim(q)) > 0 THEN q ELSE <<>>)

\* contents of generateContentStream: the history as given, then the new turn
GeminiContents(q, h, atts) ==
  [i \in 1..Len(h) |-> [role |-> h[i].role, parts |-> h[i].parts]]
    \o <<[role |-> "user",
          parts |-> IF impl = "part_006" THEN currentParts006(q, atts)
                    ELSE <<[text |-> finalQuery(q, atts)]>>]>>

\* messages of the Anthropic request
AnthropicMessages(q, h, atts) ==
  Append(mapHistoryToOpenAIStyle(h), [role |-> "user", content |-> QueryContent(q, atts)])

\* messages of the chat-completions request
OpenAIMessages(q, h, atts) ==
  <<SystemMessage>> \o mapHistoryToOpenAIStyle(h)
    \o <<[role |-> "user",
          content |-> IF impl = "grok" THEN currentUserContent(q, atts)
                      ELSE QueryContent(q, atts)]>>

BuildRequest(q, h, atts) ==
  CASE providerKey = "google" -> GeminiContents(q, h, atts)
    [] providerKey = "anthropic" -> AnthropicMessages(q, h, atts)
    [] OTHER -> OpenAIMessages(q, h, atts)

ArgInit ==
  /\ query \in Queries
  /\ history \in SeqsUpTo(Turns, MaxHistory)
  /\ attachments \in SeqsUpTo(Files, MaxAttach)
  /\ request = NoRequest

\* the request is assembled for the arguments given
Build ==
  /\ request = NoRequest
  /\ request' = BuildRequest(query, history, attachments)
  /\ UNCHANGED <<impl, providerKey, query, history, attachments>>
  /\ UNCHANGED notArg

ArgNext == Build

(***************************************************************************)
(* The system instruction: buildSystemInstruction of part_006 and the      *)
(* same steps written inline in part_007 and services/aiService.ts.        *)
(***************************************************************************)
SYSTEM_INSTRUCTION == <<"SYSTEM_INSTRUCTION">>

NoInstruction == <<"none">>

FocusModes == {"all", "academic", "writing", "code", "social"}

\* selectedModel.systemInstructionPrefix is optional
Prefixes == {UNDEF, <<>>, <<"You are Grok.">>}

ProfileTexts(t) == {<<>>, <<SP>>, <<t>>}

App(n, c) == [name |-> n, isConnected |-> c]

\* Object.values(userProfile.connectedApps)
AppLists ==
  {<<>>, <<App("Drive", TRUE)>>, <<App("Drive", FALSE)>>,
   <<App("Drive", TRUE), App("Mail", TRUE)>>, <<App("Drive", FALSE), App("Mail", TRUE)>>}

\* getSystemInstructionForFocus: "" for a mode without a directive
getSystemInstructionForFocus(mode) ==
  CASE mode = "academic" -> <<"Focus on peer-reviewed journals ...">>
    [] mode = "code" -> <<"Focus on technical documentation ...">>
    [] mode = "writing" -> <<"Focus on creative flow ...">>
    [] mode = "social" -> <<"Focus on public sentiment ...">>
    [] OTHER -> <<>>

\* focusMode.toUpperCase()
toUpperCase(mode) ==
  CASE mode = "academic" -> "ACADEMIC"
    [] mode = "code" -> "CODE"
    [] mode = "writing" -> "WRITING"
    [] mode = "social" -> "SOCIAL"
    [] OTHER -> "ALL"

\* the test that lets a profile text in: .trim() in part_006 and
\* services/aiService.ts, the text itself in part_007
ProfileTextGiven(t) == IF impl = "part_007" THEN Truthy(t) ELSE Trim(t) # <<>>

\* the labels, which services/aiService.ts words differently
ContextLabel ==
  IF impl = "grok" THEN "USER CONTEXT (Who you are talking to):" ELSE "USER CONTEXT:"

PreferencesLabel ==
  IF impl = "grok" THEN "USER PREFERENCES (How to respond):" ELSE "USER PREFERENCES:"

FocusLine(mode) ==
  IF impl = "grok"
    THEN <<NL, NL, "CURRENT FOCUS MODE: ", toUpperCase(mode), ". ">>
           \o getSystemInstructionForFocus(mode)
    ELSE <<NL, NL, "FOCUS MODE (", toUpperCase(mode), "): ">>
           \o getSystemInstructionForFocus(mode)

\* Object.values(connectedApps).filter(app => app.isConnected).map(app => app.name)
connectedAppNames(apps) ==
  LET on == SelectSeq(apps, LAMBDA a : a.isConnected)
  IN [i \in 1..Len(on) |-> <<on[i].name>>]

\* `\n\nACTIVE DATA INTEGRATIONS: ${connectedAppNames.join(', ')}. ...`
IntegrationsText(apps) ==
  <<NL, NL, "ACTIVE DATA INTEGRATIONS: ">> \o Join(connectedAppNames(apps), <<", ">>)
    \o <<". ", "label any fabricated examples as [MOCK DATA]">>

\* the note, which only services/aiService.ts appends
IntegrationsNote(apps) ==
  IF impl = "grok" /\ Len(connectedAppNames(apps)) > 0 THEN IntegrationsText(apps) ELSE <<>>

\* a builder that appends the focus directive before the profile texts
buildFocusFirst(m, p, f) ==
  LET s1 == IF Truthy(m.systemInstructionPrefix)
              THEN m.systemInstructionPrefix \o <<NL, NL>> \o SYSTEM_INSTRUCTION
              ELSE SYSTEM_INSTRUCTION
      s2 == IF getSystemInstructionForFocus(f) # <<>> THEN s1 \o FocusLine(f) ELSE s1
      s3 == IF ProfileTextGiven(p.aboutMe)
              THEN s2 \o <<NL, NL, ContextLabel, NL>> \o p.aboutMe ELSE s2
      s4 == IF ProfileTextGiven(p.customInstructions)
              THEN s3 \o <<NL, NL, PreferencesLabel, NL>> \o p.customInstructions ELSE s3
  IN s4 \o IntegrationsNote(p.connectedApps)

\* let systemInstruction = SYSTEM_INSTRUCTION; then one if per section
buildSystemInstruction(m, p, f) ==
  LET s1 == IF Truthy(m.systemInstructionPrefix)
              THEN m.systemInstructionPrefix \o <<NL, NL>> \o SYSTEM_INSTRUCTION
              ELSE SYSTEM_INSTRUCTION
      s2 == IF ProfileTextGiven(p.aboutMe)
              THEN s1 \o <<NL, NL, ContextLabel, NL>> \o p.aboutMe ELSE s1
      s3 == IF ProfileTextGiven(p.customInstructions)
              THEN s2 \o <<NL, NL, PreferencesLabel, NL>> \o p.customInstructions ELSE s2
      s4 == IF getSystemInstructionForFocus(f) # <<>> THEN s3 \o FocusLine(f) ELSE s3
  IN s4 \o IntegrationsNote(p.connectedApps)

SysInit ==
  /\ selectedModel \in [systemInstructionPrefix : Prefixes]
  /\ userProfile \in [aboutMe : ProfileTexts("bio"), customInstructions : ProfileTexts("style"),
                      connectedApps : AppLists]
  /\ focusMode \in FocusModes
  /\ systemInstruction = NoInstruction

\* performDeepSearch builds the instruction of the request it is about to send
BuildInstruction ==
  /\ systemInstruction' = buildSystemInstruction(selectedModel, userProfile, focusMode)
  /\ systemInstruction' # systemInstruction
  /\ UNCHANGED <<selectedModel, userProfile, focusMode>>
  /\ UNCHANGED notSys

SysNext == BuildInstruction

(***************************************************************************)
(* Credential resolution: getApiKeyForProvider and the per-user key store. *)
(* The copies are told apart by the file that holds them:                  *)
(*   "part_000"  src/unnamed/part_000 (constants; keys in localStorage)     *)
(*   "part_006", "part_007"  keys in userProfile.apiKeys, which             *)
(*               components/UserProfileModal.tsx edits and saves           *)
(* A key is a text; UNDEF stands for undefined (and a missing entry).      *)
(***************************************************************************)
Resolvers == {"part_000", "part_006", "part_007"}

ProviderIds == {"google", "xai", "openai", "anthropic", "moonshot"}

EnvNames ==
  {"VITE_GOOGLE_API_KEY", "VITE_GEMINI_API_KEY", "VITE_API_KEY", "API_KEY",
   "process.env.API_KEY", "VITE_XAI_API_KEY", "VITE_GROK_API_KEY",
   "process.env.XAI_API_KEY", "VITE_OPENAI_API_KEY", "VITE_ANTHROPIC_API_KEY",
   "VITE_MOONSHOT_API_KEY"}

\* the variables some copy reads for provider p
EnvNamesOf(p) ==
  CASE p = "google" -> {"VITE_GOOGLE_API_KEY", "VITE_GEMINI_API_KEY", "VITE_API_KEY",
                        "API_KEY", "process.env.API_KEY"}
    [] p = "xai" -> {"VITE_XAI_API_KEY", "VITE_GROK_API_KEY", "process.env.XAI_API_KEY"}
    [] p = "openai" -> {"VITE_OPENAI_API_KEY"}
    [] p = "anthropic" -> {"VITE_ANTHROPIC_API_KEY"}
    [] p = "moonshot" -> {"VITE_MOONSHOT_API_KEY"}

\* the values typed into a key field
KeyInputs == {<<>>, <<SP>>, <<"k">>, <<SP, "k", SP>>}

NoLookup == [done |-> FALSE]

\* a || b || ... : the first truthy operand, else the last one
RECURSIVE OrChain(_)
OrChain(vs) ==
  IF Len(vs) = 1 THEN vs[1]
  ELSE IF Truthy(Head(vs)) THEN Head(vs) ELSE OrChain(Tail(vs))

\* part_000 getEnv and part_006 getEnvKey: v only when v.trim() is not empty
getEnv(e, name) == IF Truthy(e[name]) /\ Trim(e[name]) # <<>> THEN e[name] ELSE UNDEF

\* part_007 getEnvKey: the variable as it is
getEnvKey007(e, name) == e[name]

\* part_000 getStoredApiKey: v && v.trim() ? v : undefined
getStoredApiKey(v) == IF Truthy(v) /\ Trim(v) # <<>> THEN v ELSE UNDEF

\* the environment fallback of each copy
EnvFallback000(p, e) ==
  CASE p = "google" -> OrChain(<<getEnv(e, "VITE_GOOGLE_API_KEY"), getEnv(e, "VITE_GEMINI_API_KEY"),
                                 getEnv(e, "VITE_API_KEY"), e["process.env.API_KEY"]>>)
    [] p = "xai" -> OrChain(<<getEnv(e, "VITE_XAI_API_KEY"), getEnv(e, "VITE_GROK_API_KEY"),
                              e["process.env.XAI_API_KEY"]>>)
    [] p = "openai" -> getEnv(e, "VITE_OPENAI_API_KEY")
    [] p = "anthropic" -> getEnv(e, "VITE_ANTHROPIC_API_KEY")
    [] p = "moonshot" -> getEnv(e, "VITE_MOONSHOT_API_KEY")

EnvFallback006(p, e) ==
  CASE p = "google" -> OrChain(<<getEnv(e, "VITE_GOOGLE_API_KEY"), getEnv(e, "VITE_GEMINI_API_KEY"),
                                 getEnv(e, "VITE_API_KEY")>>)
    [] p = "xai" -> OrChain(<<getEnv(e, "VITE_XAI_API_KEY"), getEnv(e, "VITE_GROK_API_KEY")>>)
    [] p = "openai" -> getEnv(e, "VITE_OPENAI_API_KEY")
    [] p = "moonshot" -> getEnv(e, "VITE_MOONSHOT_API_KEY")
    [] p = "anthropic" -> getEnv(e, "VITE_ANTHROPIC_API_KEY")

EnvFallback007(p, e) ==
  CASE p = "google" -> OrChain(<<getEnvKey007(e, "VITE_GOOGLE_API_KEY"), getEnvKey007(e, "API_KEY")>>)
    [] p = "xai" -> getEnvKey007(e, "VITE_GROK_API_KEY")
    [] p = "openai" -> getEnvKey007(e, "VITE_OPENAI_API_KEY")
    [] p = "anthropic" -> getEnvKey007(e, "VITE_ANTHROPIC_API_KEY")
    [] p = "moonshot" -> getEnvKey007(e, "VITE_MOONSHOT_API_KEY")

EnvFallback(r, p, e) ==
  CASE r = "part_000" -> EnvFallback000(p, e)
    [] r = "part_006" -> EnvFallback006(p, e)
    [] r = "part_007" -> EnvFallback007(p, e)

\* the environment key wins over the stored one
envKeyFirst(r, p, st, e) ==
  IF Truthy(EnvFallback(r, p, e)) THEN EnvFallback(r, p, e) ELSE st

\* getApiKeyForProvider of copy r, for provider p, stored key st, environment e
getApiKeyForProvider(r, p, st, e) ==
  CASE r = "part_000" ->
         LET stored == getStoredApiKey(st)
         IN IF Truthy(stored) THEN stored ELSE EnvFallback000(p, e)
    [] r = "part_006" ->
         IF Truthy(st) /\ Truthy(Trim(st)) THEN Trim(st) ELSE EnvFallback006(p, e)
    [] r = "part_007" ->
         IF Truthy(st) THEN st ELSE EnvFallback007(p, e)

\* VITE_XAI_BASE_URL, VITE_OPENAI_BASE_URL, ...: not set, blank, or a url
BaseUrlValues == {UNDEF, <<SP>>, <<"https://proxy.example/v1">>}

\* the providers served by the chat-completions branch
OpenAICompatible == {"xai", "openai", "moonshot"}

\* the defaults of part_000 getOpenAICompatibleBaseUrl
DefaultBaseUrl(p) ==
  CASE p = "xai" -> <<"https://api.x.ai/v1">>
    [] p = "openai" -> <<"https://api.openai.com/v1">>
    [] p = "moonshot" -> <<"https://api.moonshot.ai/v1">>
    [] p = "anthropic" -> <<"https://api.anthropic.com/v1">>
    [] OTHER -> <<"https://generativelanguage.googleapis.com/v1beta">>

\* part_000: getEnv("VITE_..._BASE_URL") || default; no copy calls it
getOpenAICompatibleBaseUrl(p, v) ==
  IF Truthy(v) /\ Trim(v) # <<>> THEN v ELSE DefaultBaseUrl(p)

\* the url of the request: PROVIDER_URLS[providerKey] in part_006 and
\* part_007, XAI_CHAT_COMPLETIONS_URL in services/aiService.ts (the service
\* beside the constants of part_000), whatever the provider
RequestUrl(r, p) ==
  CASE r = "part_000" -> <<"https://api.x.ai/v1", "/chat/completions">>
    [] p = "anthropic" -> <<"https://api.anthropic.com/v1", "/messages">>
    [] p = "google" -> <<"https://generativelanguage.googleapis.com/v1beta">>
    [] r = "part_007" /\ p = "moonshot" -> <<"https://api.moonshot.cn/v1", "/chat/completions">>
    [] OTHER -> DefaultBaseUrl(p) \o <<"/chat/completions">>

\* a variable of the build environment is not set, holds whitespace only, or
\* holds a key (named after the variable)
CredInit ==
  /\ resolver \in Resolvers
  /\ provider \in ProviderIds
  /\ \E f \in [EnvNamesOf(provider) -> {"unset", "blank", "key"}] :
       env = [n \in EnvNames |->
                IF n \notin EnvNamesOf(provider) \/ f[n] = "unset" THEN UNDEF
                ELSE IF f[n] = "blank" THEN <<SP>> ELSE <<n>>]
  /\ baseUrlEnv \in BaseUrlValues
  /\ formKey = UNDEF
  /\ storedKey = UNDEF
  /\ lookup = NoLookup

\* UserProfileModal handleKeyChange: the field value, trimmed, into formData
handleKeyChange ==
  /\ resolver \in {"part_006", "part_007"}
  /\ \E value \in KeyInputs : formKey' = Trim(value)
  /\ UNCHANGED <<resolver, provider, env, baseUrlEnv, storedKey, lookup>>
  /\ UNCHANGED notCred

\* UserProfileModal handleSave: onSave(formData) becomes the user profile
handleSave ==
  /\ resolver \in {"part_006", "part_007"}
  /\ storedKey' = formKey
  /\ UNCHANGED <<resolver, provider, env, baseUrlEnv, formKey, lookup>>
  /\ UNCHANGED notCred

\* part_000 saveStoredApiKey: a blank key is not stored
saveStoredApiKey ==
  /\ resolver = "part_000"
  /\ \E key \in KeyInputs :
       storedKey' = IF Trim(key) = <<>> THEN storedKey ELSE Trim(key)
  /\ UNCHANGED <<resolver, provider, env, baseUrlEnv, formKey, lookup>>
  /\ UNCHANGED notCred

\* part_000 clearStoredApiKey
clearStoredApiKey ==
  /\ resolver = "part_000"
  /\ storedKey' = UNDEF
  /\ UNCHANGED <<resolver, provider, env, baseUrlEnv, formKey, lookup>>
  /\ UNCHANGED notCred

\* performDeepSearch looks up the key and picks the url of its request;
\* lookup keeps the input and the results
ResolveKey ==
  /\ lookup' = [done |-> TRUE, stored |-> storedKey,
                apiKey |-> getApiKeyForProvider(resolver, provider, storedKey, env),
                url |-> RequestUrl(resolver, provider)]
  /\ UNCHANGED <<resolver, provider, env, baseUrlEnv, formKey, storedKey>>
  /\ UNCHANGED notCred

CredNext ==
  \/ handleKeyChange
  \/ handleSave
  \/ saveStoredApiKey
  \/ clearStoredApiKey
  \/ ResolveKey

(***************************************************************************)
(* The chat UI: the handlers of the App component that call                *)
(* performDeepSearch.  The copies are told apart by the file:              *)
(*   "App"       src/App.tsx                                                *)
(*   "part_001"  src/unnamed/part_001                                       *)
(* Submissions carry no quotes.  The k-th handler run draws the ids        *)
(* 3k+1 (user message), 3k+2 (placeholder answer) and 3k+3 (error message) *)
(* in place of Date.now(), Date.now() + 1 and Date.now() + 2.              *)
(***************************************************************************)
Uis == {"App", "part_001"}

UiQueries == {<<"Q">>, <<"R">>}

PARTIAL == <<"P">>      \* a partialText handed to onProgress
ANSWER == <<"A">>       \* result.text
FAILURE == <<"E">>      \* the content of an error message

Msg(id, role, content, streaming) ==
  [id |-> id, role |-> role, content |-> content, isStreaming |-> streaming]

UserId == 3 * started + 1
AiId == 3 * started + 2

IdsOf(msgs) == [i \in 1..Len(msgs) |-> msgs[i].id]

IdSet(msgs) == {msgs[i].id : i \in 1..Len(msgs)}

\* messages.findIndex(m => m.id === id), 1-based; 0 when absent
FindIndex(msgs, id) ==
  IF id \in IdSet(msgs) THEN CHOOSE i \in 1..Len(msgs) : msgs[i].id = id ELSE 0

\* prev.filter(m => m.id !== aiMsgId)
WithoutAi(msgs, c) == SelectSeq(msgs, LAMBDA m : m.id # c.aiMsgId)

\* components/MessageItem.tsx is memoised on content, isStreaming and
\* isThinking: an item keeps the onRegenerate of the render that last
\* rendered it, and that handler's closure holds the messages of that render.
\* part_001 renders the MessageItem of part_004, which is not memoised.
Render(newMsgs) ==
  IF ui # "App" THEN <<>>
  ELSE [id \in IdSet(newMsgs) |->
          LET new == newMsgs[FindIndex(newMsgs, id)]
              old == messages[FindIndex(messages, id)]
          IN IF /\ id \in IdSet(messages)
                /\ old.content = new.content
                /\ old.isStreaming = new.isStreaming
             THEN rendered[id]
             ELSE newMsgs]

\* historyContext: each message as {role, parts: [{text}]}
historyContext(msgs) ==
  [i \in 1..Len(msgs) |->
     [role |-> IF msgs[i].role = "user" THEN "user" ELSE "model",
      parts |-> <<[text |-> msgs[i].content]>>]]

\* the messages handleSearch turns into the history argument: App.tsx passes
\* historyContext.slice(0, -1), part_001 passes historyContext
HistoryOfSearch(initialMessages) ==
  IF ui = "App" THEN SubSeq(initialMessages, 1, Len(initialMessages) - 1)
  ELSE initialMessages

\* const [currentSessionId, ...] = useState<string | null>(null)
NULL == "null"

\* the record of one performDeepSearch call in flight: its arguments, the
\* placeholder it fills, whether handleSearch opened a session for it,
\* whether its provider request has been sent, and (for the claims) the turn
\* it answers, the messages that followed that turn and the messages behind
\* the history
Call(kind, q, passed, turn, following) ==
  [aiMsgId |-> AiId, kind |-> kind, query |-> q, history |-> historyContext(passed),
   historyIds |-> IdsOf(passed), turn |-> turn, following |-> following,
   isNewSession |-> (kind = "search" /\ currentSessionId = NULL), sent |-> FALSE]

\* the body of handleSearch, run with `msgs` as the messages of its closure
Search(msgs, q, turn, following) ==
  LET userMsg == Msg(UserId, "user", q, FALSE)
      initialMessages == Append(msgs, userMsg)
      placeholderAiMsg == Msg(AiId, "assistant", <<>>, TRUE)
  IN /\ messages' = Append(initialMessages, placeholderAiMsg)
     /\ rendered' = Render(messages')
     /\ appState' = "SEARCHING"
     /\ calls' = calls \cup {Call("search", q, HistoryOfSearch(initialMessages), turn, following)}
     /\ started' = started + 1
     /\ currentSessionId' = "session"
     /\ invoked' = invoked + 1

UiInit ==
  /\ ui \in Uis
  /\ messages = <<>>
  /\ rendered = <<>>
  /\ appState = "IDLE"
  /\ apiKeyReady \in (IF ui = "App" THEN {TRUE} ELSE BOOLEAN)
  /\ calls = {}
  /\ started = 0
  /\ currentSessionId = NULL
  /\ invoked = 0
  /\ requests = 0

\* part_001 handleConnectKey (the landing page is shown until the key is ready)
handleConnectKey ==
  /\ ui = "part_001"
  /\ ~apiKeyReady
  /\ apiKeyReady' = TRUE
  /\ UNCHANGED <<ui, messages, rendered, appState, calls, started, currentSessionId,
                 invoked, requests>>
  /\ UNCHANGED notUi

\* SearchBar handleSubmit -> handleSearch(query, ...)
handleSearch ==
  /\ appState # "SEARCHING"
  /\ apiKeyReady
  /\ started < MaxCalls
  /\ \E q \in UiQueries : Search(messages, q, UserId, {})
  /\ UNCHANGED <<ui, apiKeyReady, requests>>
  /\ UNCHANGED notUi

\* the ids of the messages that follow message `id` in the conversation
Following(id) ==
  IF id \in IdSet(messages)
  THEN {messages[j].id : j \in (FindIndex(messages, id) + 1)..Len(messages)}
  ELSE {}

\* App.tsx handleRegenerate(id), run with `msgs` as the messages of its
\* closure: setMessages(truncated) is overwritten by the
\* setMessages(initialMessages) of handleSearch, whose closure holds the
\* same messages
RegenerateApp(msgs, id) ==
  LET msgIndex == FindIndex(msgs, id)
      users == {i \in 1..(msgIndex - 1) : msgs[i].role = "user"}
      last == CHOOSE i \in users : \A j \in users : j <= i
      lastUserMsg == msgs[last]
  IN /\ users # {}
     /\ Search(msgs, lastUserMsg.content, lastUserMsg.id, Following(lastUserMsg.id))

\* part_001 handleRegenerate(messageId)
Regenerate001(id) ==
  LET msgIndex == FindIndex(messages, id)
      userMsgIndex == msgIndex - 1
      userMsg == messages[userMsgIndex]
      historyState == SubSeq(messages, 1, userMsgIndex)
      placeholderAiMsg == Msg(AiId, "assistant", <<>>, TRUE)
  IN /\ userMsgIndex >= 1
     /\ userMsg.role = "user"
     /\ messages' = Append(historyState, placeholderAiMsg)
     /\ rendered' = Render(messages')
     /\ appState' = "SEARCHING"
     /\ calls' = calls \cup {Call("regenerate", userMsg.content, historyState, userMsg.id,
                                  {messages[j].id : j \in (userMsgIndex + 1)..Len(messages)})}
     /\ started' = started + 1
     /\ invoked' = invoked + 1
     /\ UNCHANGED currentSessionId

\* MessageItem shows the Regenerate button under an answer that is not streaming
handleRegenerate ==
  /\ apiKeyReady
  /\ started < MaxCalls
  /\ \E i \in 1..Len(messages) :
       /\ messages[i].role = "assistant"
       /\ ~messages[i].isStreaming
       /\ IF ui = "App" THEN RegenerateApp(rendered[messages[i].id], messages[i].id)
          ELSE Regenerate001(messages[i].id)
  /\ UNCHANGED <<ui, apiKeyReady, requests>>
  /\ UNCHANGED notUi

\* setMessages(currentMsgs => ...): the placeholder of call c, if still shown
UpdateAi(msgs, c, content, streaming) ==
  [i \in 1..Len(msgs) |->
     IF msgs[i].id = c.aiMsgId
     THEN [msgs[i] EXCEPT !.content = content, !.isStreaming = streaming]
     ELSE msgs[i]]

\* prev.map(m => m.id === aiMsgId ? {...m, isStreaming: false} : m)
StopAi(msgs, c) ==
  [i \in 1..Len(msgs) |->
     IF msgs[i].id = c.aiMsgId THEN [msgs[i] EXCEPT !.isStreaming = FALSE] ELSE msgs[i]]

\* performDeepSearch of call c passes its key check and sends its request
\* (fetch / generateContentStream)
ProviderRequest ==
  /\ \E c \in calls :
       /\ ~c.sent
       /\ calls' = (calls \ {c}) \cup {[c EXCEPT !.sent = TRUE]}
  /\ requests' = requests + 1
  /\ UNCHANGED <<ui, messages, rendered, appState, apiKeyReady, started, currentSessionId,
                 invoked>>
  /\ UNCHANGED notUi

\* the onProgress callback of call c
onProgress ==
  /\ \E c \in calls : c.sent /\ messages' = UpdateAi(messages, c, PARTIAL, TRUE)
  /\ rendered' = Render(messages')
  /\ UNCHANGED <<ui, appState, apiKeyReady, calls, started, currentSessionId, invoked,
                 requests>>
  /\ UNCHANGED notUi

\* if (isNewSession) generateChatTitle(query, result.text): one more chat
\* completion, sent when the placeholder is still shown and generateChatTitle
\* finds a key (keyed)
generateChatTitle(c, keyed) ==
  IF c.isNewSession /\ c.aiMsgId \in IdSet(messages) /\ keyed THEN 1 ELSE 0

\* performDeepSearch of call c resolves
SearchResolved ==
  /\ \E c \in calls, keyed \in BOOLEAN :
       /\ c.sent
       /\ messages' = UpdateAi(messages, c, ANSWER, FALSE)
       /\ calls' = calls \ {c}
       /\ requests' = requests + generateChatTitle(c, keyed)
  /\ rendered' = Render(messages')
  /\ appState' = "IDLE"
  /\ UNCHANGED <<ui, apiKeyReady, started, currentSessionId, invoked>>
  /\ UNCHANGED notUi

\* performDeepSearch of call c rejects; auth: the error is a permission error
SearchRejected ==
  /\ \E c \in calls, auth \in BOOLEAN :
       LET errorMsg == Msg(c.aiMsgId + 1, "assistant", FAILURE, FALSE)
       IN /\ calls' = calls \ {c}
          /\ IF ui = "App"
             THEN /\ messages' = Append(StopAi(messages, c), errorMsg)
                  /\ appState' = "ERROR"
                  /\ UNCHANGED apiKeyReady
             ELSE IF auth /\ c.kind = "regenerate"
             THEN /\ apiKeyReady' = FALSE
                  /\ UNCHANGED <<messages, appState>>
             ELSE /\ apiKeyReady' = (IF auth THEN FALSE ELSE apiKeyReady)
                  /\ messages' = Append(WithoutAi(messages, c), errorMsg)
                  /\ appState' = "ERROR"
  /\ rendered' = Render(messages')
  /\ UNCHANGED <<ui, started, currentSessionId, invoked, requests>>
  /\ UNCHANGED notUi

\* handleReset
handleReset ==
  /\ apiKeyReady
  /\ messages' = <<>>
  /\ rendered' = <<>>
  /\ appState' = "IDLE"
  /\ currentSessionId' = NULL
  /\ UNCHANGED <<ui, apiKeyReady, calls, started, invoked, requests>>
  /\ UNCHANGED notUi

UiNext ==
  \/ handleConnectKey
  \/ handleSearch
  \/ handleRegenerate
  \/ ProviderRequest
  \/ onProgress
  \/ SearchResolved
  \/ SearchRejected
  \/ handleReset

(***************************************************************************)
(* utils/storage.ts: saveSession                                           *)
(***************************************************************************)
NoSession == [id |-> 0, messages |-> <<>>]

Session(id, msgs) == [id |-> id, messages |-> msgs]

SessionIds == 1..(MaxSessions + 1)

\* the sessions in localStorage (getSessions): each id at most once, the
\* list as earlier saveSession calls left it
StoredLists ==
  {l \in SeqsUpTo({Session(i, <<"old">>) : i \in SessionIds}, MaxSessions) :
     \A i, j \in 1..Len(l) : l[i].id = l[j].id => i = j}

\* sessions.findIndex(s => s.id === session.id), 1-based; 0 when absent
findIndex(list, id) ==
  IF \E i \in 1..Len(list) : list[i].id = id
  THEN CHOOSE i \in 1..Len(list) : list[i].id = id
  ELSE 0

\* if (index >= 0) sessions[index] = session; else sessions.unshift(session)
UpdateOrInsert(list, sess) ==
  IF findIndex(list, sess.id) > 0
  THEN [list EXCEPT ![findIndex(list, sess.id)] = sess]
  ELSE <<sess>> \o list

\* persistSession calls saveSession with the messages of the conversation
StoreInit ==
  /\ localStorage \in StoredLists
  /\ session \in {Session(i, <<"new">>) : i \in SessionIds}
  /\ sessions = <<>>
  /\ save_pc = "idle"

\* saveSession, steps 1 and 2: read the list, update or insert
saveSession ==
  /\ save_pc = "idle"
  /\ sessions' = UpdateOrInsert(localStorage, session)
  /\ save_pc' = "setItem"
  /\ UNCHANGED <<localStorage, session>>
  /\ UNCHANGED notStore

\* localStorage.setItem succeeds: return sessions
setItem ==
  /\ save_pc = "setItem"
  /\ localStorage' = sessions
  /\ save_pc' = "returned"
  /\ UNCHANGED <<session, sessions>>
  /\ UNCHANGED notStore

\* localStorage.setItem throws a quota error: pop the last session and try
\* again, or give up when one session is left
QuotaExceeded ==
  /\ save_pc = "setItem"
  /\ IF Len(sessions) > 1
       THEN sessions' = SubSeq(sessions, 1, Len(sessions) - 1) /\ save_pc' = "setItem"
       ELSE sessions' = sessions /\ save_pc' = "returned"
  /\ UNCHANGED <<localStorage, session>>
  /\ UNCHANGED notStore

\* localStorage.setItem throws anything else: return sessions
UnknownError ==
  /\ save_pc = "setItem"
  /\ save_pc' = "returned"
  /\ UNCHANGED <<localStorage, session, sessions>>
  /\ UNCHANGED notStore

StoreNext ==
  \/ saveSession
  \/ setItem
  \/ QuotaExceeded
  \/ UnknownError

(***************************************************************************)
(* Specifications: each part of the program runs on its own                *)
(***************************************************************************)
SseIdle ==
  /\ sse_pc = "off"
  /\ sse_input = <<>>
  /\ sse_split = FALSE
  /\ sse_pending = <<>>
  /\ buffer = <<>>
  /\ sse_out = <<>>

ImplIdle == impl = "part_006" /\ providerKey = "openai"

ReqIdle ==
  /\ apiKey = UNDEF
  /\ pc = "off"
  /\ res = NoRes
  /\ received = <<>>
  /\ fullText = <<>>
  /\ currentEvent = ""
  /\ progress = <<>>
  /\ sources = <<>>
  /\ sourceMap = {}
  /\ images = <<>>
  /\ result = NoResult
  /\ fetches = 0
  /\ transport = "none"

ArgIdle == query = <<>> /\ history = <<>> /\ attachments = <<>> /\ request = NoRequest

CredIdle ==
  /\ resolver = "part_006"
  /\ provider = "google"
  /\ env = [n \in EnvNames |-> UNDEF]
  /\ baseUrlEnv = UNDEF
  /\ formKey = UNDEF
  /\ storedKey = UNDEF
  /\ lookup = NoLookup

UiIdle ==
  /\ ui = "App"
  /\ messages = <<>>
  /\ rendered = <<>>
  /\ appState = "IDLE"
  /\ apiKeyReady = TRUE
  /\ calls = {}
  /\ started = 0
  /\ currentSessionId = NULL
  /\ invoked = 0
  /\ requests = 0

SysIdle ==
  /\ selectedModel = [systemInstructionPrefix |-> UNDEF]
  /\ userProfile = [aboutMe |-> <<>>, customInstructions |-> <<>>, connectedApps |-> <<>>]
  /\ focusMode = "all"
  /\ systemInstruction = NoInstruction

PairIdle == invs = NoInvocations /\ overlapped = FALSE

StoreIdle == localStorage = <<>> /\ session = NoSession /\ sessions = <<>> /\ save_pc = "off"

InitSse == SseInit /\ ImplIdle /\ ReqIdle /\ ArgIdle /\ CredIdle /\ UiIdle /\ SysIdle /\ PairIdle /\ StoreIdle

InitReq == ImplChoice /\ ReqInit /\ SseIdle /\ ArgIdle /\ CredIdle /\ UiIdle /\ SysIdle /\ PairIdle /\ StoreIdle

InitArg == ImplChoice /\ ArgInit /\ ReqIdle /\ SseIdle /\ CredIdle /\ UiIdle /\ SysIdle /\ PairIdle /\ StoreIdle

InitCred == CredInit /\ ImplIdle /\ ReqIdle /\ SseIdle /\ ArgIdle /\ UiIdle /\ SysIdle /\ PairIdle /\ StoreIdle

InitUi == UiInit /\ ImplIdle /\ ReqIdle /\ SseIdle /\ ArgIdle /\ CredIdle /\ SysIdle /\ PairIdle /\ StoreIdle

InitSys ==
  /\ impl \in Impls /\ providerKey = "openai"
  /\ SysInit /\ ReqIdle /\ SseIdle /\ ArgIdle /\ CredIdle /\ UiIdle /\ PairIdle /\ StoreIdle

SpecSys == InitSys /\ [][SysNext]_vars

InitPair ==
  /\ ImplChoice
  /\ PairInit /\ ReqIdle /\ SseIdle /\ ArgIdle /\ CredIdle /\ UiIdle /\ SysIdle /\ StoreIdle

SpecPair == InitPair /\ [][PairNext]_vars

InitStore ==
  /\ StoreInit /\ ImplIdle /\ ReqIdle /\ SseIdle /\ ArgIdle /\ CredIdle /\ UiIdle /\ SysIdle
  /\ PairIdle

SpecStore == InitStore /\ [][StoreNext]_vars

SpecCred == InitCred /\ [][CredNext]_vars

SpecUi == InitUi /\ [][UiNext]_vars

SpecArg == InitArg /\ [][ArgNext]_vars

SpecSse == InitSse /\ [][SseNext]_vars

SpecReq == InitReq /\ [][ReqNext]_vars

\* the whole run of sseLines on a stream that delivers `bytes` in one read
SseWhole(bytes) ==
  LET d == DecodeStream(<<>>, bytes)
      RECURSIVE Drain(_, _)
      Drain(buf, out) ==
        LET i == IndexOfNL(buf) IN
        IF i = -1 THEN FlushFinal(buf, out)
        ELSE Drain(Slice(buf, i + 1, Len(buf)), Append(out, TrimEnd(Slice(buf, 0, i))))
  IN IF bytes = <<>> THEN <<>> ELSE Drain(BufferAppend(<<>>, d.text), <<>>)


(***************************************************************************)
(* Claims about sseLines                                                   *)
(***************************************************************************)
\* the text the decoder has produced from everything received
Decoded == DecodeStream(<<>>, sse_input).text

\* the segments of a text between its newlines (one more than its newlines)
RECURSIVE SplitNL(_)
SplitNL(s) ==
  LET i == IndexOfNL(s) IN
  IF i = -1 THEN <<s>>
  ELSE <<SubSeq(s, 1, i)>> \o SplitNL(SubSeq(s, i + 2, Len(s)))

RECURSIVE JoinNL(_)
JoinNL(ls) ==
  IF ls = <<>> THEN <<>>
  ELSE IF Len(ls) = 1 THEN ls[1]
  ELSE ls[1] \o <<NL>> \o JoinNL(Tail(ls))

ABC == <<"a", NL, "b", NL, "c">>

\* C8: whatever the chunk boundaries were, a finished sseLines run has yielded
\* the lines a run on the same bytes delivered in one read yields; for
\* "a\nb\nc" these are exactly "a", "b", "c".
C8_ChunkIndependent ==
  sse_pc = "done" =>
    /\ sse_out = SseWhole(sse_input)
    /\ (sse_input = ABC => sse_out = << <<"a">>, <<"b">>, <<"c">> >>)

\* C8 witness: "a\nb\nc" was delivered with a read ending inside a line
C8_Witness ==
  /\ sse_pc = "done"
  /\ sse_input = ABC
  /\ sse_split
  /\ sse_out = << <<"a">>, <<"b">>, <<"c">> >>

\* C9 as stated: the yielded lines joined by newlines are the received text
C9_Original == sse_pc = "done" => JoinNL(sse_out) = Decoded

\* C9 (amended): a line is yielded only once its newline has arrived or the
\* stream has ended; the k-th yielded line is the k-th newline-separated
\* segment of the received text without its trailing whitespace; what has not
\* been yielded is held in the buffer unchanged; at the end of the stream the
\* last segment is yielded once unless it is empty.
C9_LinesAreSegments ==
  LET segs == SplitNL(Decoded)
      n == Len(segs)
      k == Len(sse_out)
  IN /\ k <= n
     /\ \A i \in 1..k : sse_out[i] = TrimEnd(segs[i])
     /\ sse_pc # "done" =>
          /\ k < n
          /\ buffer = JoinNL(SubSeq(segs, k + 1, n))
     /\ sse_pc = "done" => k = (IF segs[n] = <<>> THEN n - 1 ELSE n)

\* C9 witness: a line arrived split over two reads, lines were yielded and a
\* partial last line was flushed at the end of the stream
C9_Witness ==
  /\ sse_pc = "done"
  /\ sse_split
  /\ buffer # <<>>
  /\ Len(sse_out) >= 2
  /\ sse_out[Len(sse_out)] = TrimEnd(buffer)


(***************************************************************************)
(* Claims about one performDeepSearch invocation                           *)
(***************************************************************************)
\* index of the first element of `items` that satisfies Test, or 0
FirstIndex(items, Test(_)) ==
  IF \E i \in 1..Len(items) : Test(items[i])
    THEN CHOOSE i \in 1..Len(items) :
           Test(items[i]) /\ \A j \in 1..(i - 1) : ~Test(items[j])
    ELSE 0

IsDoneLine(l) == l.kind = "done"
IsContentLine(l) == l.kind = "data" /\ l.text # <<>>

\* the content fragments of the data lines of `lines`, in arrival order
RECURSIVE Fragments(_)
Fragments(lines) ==
  IF lines = <<>> THEN <<>>
  ELSE IF IsContentLine(Head(lines)) THEN <<Head(lines).text>> \o Fragments(Tail(lines))
  ELSE Fragments(Tail(lines))

\* C3: when the OpenAI-compatible loop has met "data: [DONE]" after content
\* fragments d1..dn (n >= 1), onChunk was called exactly n times, the k-th call
\* with d1+...+dk, the response text is d1+...+dn, and nothing delivered after
\* [DONE] is in the text or was reported.
C3_OpenAIStream ==
  (providerKey = "openai" /\ pc = "resolved" /\ FirstIndex(received, IsDoneLine) > 0) =>
    LET ds == Fragments(SubSeq(received, 1, FirstIndex(received, IsDoneLine) - 1)) IN
      /\ Len(progress) = Len(ds)
      /\ \A k \in 1..Len(ds) : progress[k] = Concat(SubSeq(ds, 1, k))
      /\ Len(ds) >= 1 => result.text = Concat(ds)

\* C3 witness: "Hel", "lo", [DONE] and then one more content line
C3_Witness ==
  /\ providerKey = "openai" /\ pc = "resolved"
  /\ Len(received) = 4
  /\ received[1].kind = "data" /\ received[1].text = D1
  /\ received[2].kind = "data" /\ received[2].text = D2
  /\ received[3].kind = "done"
  /\ received[4].kind = "data" /\ received[4].text = D1
  /\ progress = <<D1, D1 \o D2>>
  /\ result.text = D1 \o D2

\* a complete message_stop frame: the event line and then its data line
StopReceived ==
  \E i \in 1..(Len(received) - 1) :
    /\ received[i].kind = "event" /\ received[i].name = "message_stop"
    /\ received[i + 1].kind = "data" /\ received[i + 1].name = "message_stop"

\* C4: once a message_stop frame has been received by the Messages adapter,
\* no later frame changes the text or is reported through onChunk.
C4_Claim ==
  [][(providerKey = "anthropic" /\ StopReceived) =>
       (fullText' = fullText /\ progress' = progress)]_vars

\* C5: a stream that completes with no text delta and no image resolves with
\* the fixed failure sentence, never with the empty string.
C5_Claim ==
  (pc = "resolved" /\ progress = <<>> /\ images = <<>>) =>
    (result.text = SENTINEL /\ result.text # <<>>)

\* C6: after a failed dispatch (a non-2xx status or a response without a body)
\* the promise is rejected, never resolved, and onChunk was not called.
C6_DispatchFailure ==
  (res.sent /\ ~(res.ok /\ res.body)) =>
    /\ pc = "rejected"
    /\ result = NoResult
    /\ progress = <<>>

\* C6 witness: a non-2xx response that carries an error body
C6_Witness == pc = "rejected" /\ res.sent /\ ~res.ok /\ res.body /\ fetches = 1

\* every titled citation of the chunks received, in arrival order
RECURSIVE Citations(_)
Citations(chunks) ==
  IF chunks = <<>> THEN <<>>
  ELSE SelectSeq(Head(chunks).grounding, LAMBDA gc : gc.uri # "" /\ gc.title # "")
         \o Citations(Tail(chunks))

\* the first occurrence of each url of `cs`, in order of first occurrence
RECURSIVE FirstOccurrences(_, _)
FirstOccurrences(cs, seen) ==
  IF cs = <<>> THEN <<>>
  ELSE IF Head(cs).uri \in seen THEN FirstOccurrences(Tail(cs), seen)
  ELSE <<[title |-> Head(cs).title, url |-> Head(cs).uri]>>
         \o FirstOccurrences(Tail(cs), seen \cup {Head(cs).uri})

\* C7: the sources of the final result hold one entry per url, with the title
\* of the url's first occurrence, in order of first occurrence.
C7_Claim ==
  (providerKey = "google" /\ pc = "resolved") =>
    result.sources = FirstOccurrences(Citations(received), {})


(***************************************************************************)
(* Claims about the assembled request                                      *)
(***************************************************************************)
Built == request # NoRequest

\* the part of the request between the system message (if any) and the new turn
HistorySection ==
  IF providerKey = "openai" THEN SubSeq(request, 2, Len(request) - 1)
  ELSE SubSeq(request, 1, Len(request) - 1)

\* the text a message of the request carries
MessageText(m) ==
  IF providerKey = "google"
    THEN Concat([i \in 1..Len(m.parts) |->
                   IF "text" \in DOMAIN m.parts[i] THEN m.parts[i].text ELSE <<>>])
    ELSE m.content

RoleOf(r) == IF providerKey = "google" THEN r ELSE IF r = "model" THEN "assistant" ELSE "user"

IsSuffix(t, u) == Len(t) <= Len(u) /\ SubSeq(u, Len(u) - Len(t) + 1, Len(u)) = t

\* the turns an adapter keeps: all of them (Gemini), those with text (others)
RECURSIVE KeptTurns(_)
KeptTurns(h) ==
  IF h = <<>> THEN <<>>
  ELSE IF providerKey = "google" \/ \E i \in 1..Len(Head(h).parts) :
                                      \E j \in 1..Len(Head(h).parts[i].text) :
                                        ~IsSpace(Head(h).parts[i].text[j])
    THEN <<Head(h)>> \o KeptTurns(Tail(h))
  ELSE KeptTurns(Tail(h))

NewTurnLast ==
  /\ Len(request) >= 1
  /\ request[Len(request)].role = "user"
  /\ IsSuffix(Trim(query), MessageText(request[Len(request)]))

SectionIs(turns) ==
  /\ Len(HistorySection) = Len(turns)
  /\ \A i \in 1..Len(turns) :
       /\ HistorySection[i].role = RoleOf(turns[i].role)
       /\ MessageText(HistorySection[i]) = PartsText(turns[i].parts)

\* C1 as stated: the request holds every history turn, in order, and then the
\* new turn as its last element
C1_Original == Built => (SectionIs(history) /\ NewTurnLast)

\* C1 (amended): the request holds, in their original order, the history turns
\* (for the Anthropic and OpenAI-compatible adapters only those whose text is
\* not blank) and then the new turn as its last element; the history section
\* holds nothing else, so the new turn is not repeated in it.
C1_HistoryThenQuery == Built => (SectionIs(KeptTurns(history)) /\ NewTurnLast)

\* C1 witness: an OpenAI-compatible request for a history of a blank user turn
\* and an answer: the answer and then the new turn follow the system message
C1_Witness ==
  /\ Built /\ providerKey = "openai"
  /\ Len(history) = 2
  /\ PartsText(history[1].parts) = <<>> /\ history[1].role = "user"
  /\ PartsText(history[2].parts) = <<"B">> /\ history[2].role = "model"
  /\ query = <<"Q">>
  /\ Len(request) = 3
  /\ request[2] = [role |-> "assistant", content |-> <<"B">>]
  /\ request[3].role = "user"

(***************************************************************************)
(* Claims about credential resolution                                      *)
(***************************************************************************)
\* a stored key that is not empty (whitespace only counts as empty)
HasKey(s) == s # UNDEF /\ Trim(s) # <<>>

\* the keys the build environment holds
EnvKeys == {env[n] : n \in EnvNames} \ {UNDEF}

C2_Claim ==
  \A c \in calls :
    \A i \in 1..Len(c.historyIds) : c.historyIds[i] # c.turn

Loop0 == [fullText |-> <<>>, currentEvent |-> "", progress |-> <<>>,
          sources |-> <<>>, sourceMap |-> {}, images |-> <<>>, brk |-> FALSE]

\* the loop state after the loop has been fed `items`, stopping at a break
RECURSIVE RunLoop(_, _)
RunLoop(st, items) ==
  IF items = <<>> \/ st.brk THEN st
  ELSE RunLoop(CASE providerKey = "openai" -> StepOpenAI(st, Head(items))
                 [] providerKey = "anthropic" -> StepAnthropic(st, Head(items))
                 [] OTHER -> StepGemini(st, Head(items)),
               Tail(items))

WellFormed(lines) == SelectSeq(lines, LAMBDA l : l.kind # "malformed")

SseAdapter == providerKey \in {"openai", "anthropic"}

\* the loop has just been handed a data line that is not JSON
MalformedStep ==
  /\ SseAdapter
  /\ pc = "streaming"
  /\ Len(received') = Len(received) + 1
  /\ received'[Len(received')].kind = "malformed"

\* C12: in the SSE adapters a data line whose payload is not JSON is skipped:
\* it leaves the text unchanged, causes no onChunk call and does not end the
\* invocation, and the text and the onChunk calls are those of the same
\* stream without its malformed lines.
C12_MalformedSkipped ==
  /\ [](SseAdapter /\ pc \in {"streaming", "resolved"} =>
          /\ progress = RunLoop(Loop0, WellFormed(received)).progress
          /\ pc = "streaming" => fullText = RunLoop(Loop0, WellFormed(received)).fullText)
  /\ [][MalformedStep =>
          (pc' = "streaming" /\ fullText' = fullText /\ progress' = progress)]_vars

\* a malformed line between two content lines, both of which were reported
C12_Witness ==
  /\ SseAdapter
  /\ pc = "streaming"
  /\ Len(received) = 4
  /\ received[2].kind = "malformed"
  /\ progress = <<D1, D1 \o D1>>
  /\ fullText = D1 \o D1

\* the elements of a set of numbers in ascending order
RECURSIVE Ascending(_)
Ascending(S) ==
  IF S = {} THEN <<>>
  ELSE LET lo == CHOOSE x \in S : \A y \in S : x <= y
       IN <<lo>> \o Ascending(S \ {lo})

\* the indexes of the received items that carry a text delta
TextIndexes ==
  {i \in 1..Len(received) : received[i].kind \in {"data", "chunk"} /\ received[i].text # <<>>}

\* the texts of the items at the indexes `S`, in arrival order
TextsAt(S) == [k \in 1..Cardinality(S) |-> received[Ascending(S)[k]].text]

\* s is a proper prefix of t
StrictPrefix(s, t) == Len(s) < Len(t) /\ SubSeq(t, 1, Len(s)) = s

\* the onChunk calls are the running concatenations of `ds`
RunningSums(ds) == [k \in 1..Len(ds) |-> Concat(SubSeq(ds, 1, k))]

\* the items the loop has read: none when the status check threw, those
\* received before the first sentinel (OpenAI-compatible), all otherwise
ReadItems ==
  IF ~res.ok THEN <<>>
  ELSE IF providerKey = "openai" /\ FirstIndex(received, IsDoneLine) > 0
    THEN SubSeq(received, 1, FirstIndex(received, IsDoneLine) - 1)
    ELSE received

Settled == pc \in {"resolved", "rejected"}

\* C14: onChunk is never called after the promise of performDeepSearch has
\* settled: from a resolved or rejected invocation no step adds an onChunk
\* call, whatever the transport still delivers.
C14_NoProgressAfterSettle == [][Settled => progress' = progress]_vars

\* a content line arrived after the loop had left at the sentinel with one
\* delta reported
C14_Witness ==
  /\ pc = "resolved"
  /\ providerKey = "openai"
  /\ Len(received) = 3
  /\ IsDone(received[2])
  /\ received[3].kind = "data" /\ received[3].text = D2
  /\ progress = <<D1>>

\* the step in which the stream fails after at least one onChunk call
MidStreamFailure == pc = "streaming" /\ progress # <<>> /\ pc' = "rejected"

\* C15: when the stream fails after some deltas were reported, the invocation
\* rejects and has no response (it does not resolve with the partial text),
\* and the failure adds no onChunk call: the last text reported, which is the
\* whole text aggregated so far, stays what the caller was last told.
C15_MidStreamFailure ==
  /\ [](pc = "rejected" => result = NoResult)
  /\ [][MidStreamFailure =>
          /\ result' = NoResult
          /\ progress' = progress
          /\ progress'[Len(progress')] = fullText]_vars

\* the stream failed after two deltas had been reported
C15_Witness ==
  /\ pc = "rejected"
  /\ transport = "aborted"
  /\ progress = <<D1, D1 \o D2>>
  /\ result = NoResult

(***************************************************************************)
(* Claims about the assembled request                                      *)
(***************************************************************************)
\* the message of the current turn, the last one of the request
UserTurn == request[Len(request)]

\* the text blocks of a message: its content, or the text parts of its parts
TextBlocks(m) ==
  IF "content" \in DOMAIN m THEN {m.content}
  ELSE {m.parts[i].text : i \in {j \in DOMAIN m.parts : "text" \in DOMAIN m.parts[j]}}

Mentions(t, tok) == \E k \in DOMAIN t : t[k] = tok

\* a text block of the current turn names the file and, for a binary, its type
NamedInTurn(att) ==
  \E t \in TextBlocks(UserTurn) :
    Mentions(t, att.name) /\ (~att.isText => Mentions(t, att.type))

\* C16: no attachment is dropped silently: in every copy and branch each
\* attachment, also a binary one whose type is outside the inline allow-list,
\* is named (a binary with its type) by a text block of the current turn, and
\* a text attachment's data is in that turn.
C16_NoAttachmentDropped ==
  request # NoRequest =>
    \A i \in DOMAIN attachments :
      /\ NamedInTurn(attachments[i])
      /\ attachments[i].isText =>
           \E t \in TextBlocks(UserTurn) : Mentions(t, attachments[i].data[1])

\* a binary outside the allow-list went to Gemini as a note and in the query
C16_Witness ==
  /\ request # NoRequest
  /\ impl = "part_006" /\ providerKey = "google"
  /\ Len(attachments) = 1 /\ attachments[1].name = "blob.bin"
  /\ Len(UserTurn.parts) = 2
  /\ NamedInTurn(attachments[1])

(***************************************************************************)
(* Claims about the system instruction                                     *)
(***************************************************************************)
\* the six sections in their order, each one present or left out
Assembled(persona, bio, prefs, focus, note) ==
  (IF persona THEN selectedModel.systemInstructionPrefix \o <<NL, NL>> ELSE <<>>)
    \o SYSTEM_INSTRUCTION
    \o (IF bio THEN <<NL, NL, ContextLabel, NL>> \o userProfile.aboutMe ELSE <<>>)
    \o (IF prefs THEN <<NL, NL, PreferencesLabel, NL>> \o userProfile.customInstructions
        ELSE <<>>)
    \o (IF focus THEN FocusLine(focusMode) ELSE <<>>)
    \o (IF note THEN IntegrationsText(userProfile.connectedApps) ELSE <<>>)

SomeAppConnected == \E i \in DOMAIN userProfile.connectedApps : userProfile.connectedApps[i].isConnected

\* a profile text counts: part_007 takes any text that is not empty, the
\* other copies one that is not blank
Counts(t) == IF impl = "part_007" THEN t # <<>> ELSE Trim(t) # <<>>

\* C17 as stated: the instruction is the concatenation, in the order persona
\* prefix, base instruction, bio, preferences, focus directive, integrations
\* note, of exactly the sections whose source text is not empty.
C17_Original ==
  systemInstruction # NoInstruction =>
    systemInstruction =
      Assembled(selectedModel.systemInstructionPrefix \notin {UNDEF, <<>>},
                userProfile.aboutMe # <<>>,
                userProfile.customInstructions # <<>>,
                getSystemInstructionForFocus(focusMode) # <<>>,
                SomeAppConnected)

\* C17, amended: the instruction is the concatenation, in the order persona
\* prefix, base instruction, bio, preferences, focus directive, integrations
\* note, of the sections that count: the prefix when it is not empty, a
\* profile text when it is not blank (part_007: not empty), the focus
\* directive when the mode has one, and the integrations note only in
\* services/aiService.ts, when some app is connected.  The text is a function
\* of (model, profile, focus mode).
C17_Sections ==
  systemInstruction # NoInstruction =>
    systemInstruction =
      Assembled(selectedModel.systemInstructionPrefix \notin {UNDEF, <<>>},
                Counts(userProfile.aboutMe),
                Counts(userProfile.customInstructions),
                getSystemInstructionForFocus(focusMode) # <<>>,
                impl = "grok" /\ SomeAppConnected)

\* an instruction of services/aiService.ts that has all six sections
C17_Witness ==
  /\ impl = "grok"
  /\ systemInstruction # NoInstruction
  /\ systemInstruction[1] = "You are Grok."
  /\ \A tok \in {"SYSTEM_INSTRUCTION", ContextLabel, "bio", PreferencesLabel, "style",
                 "CODE", "ACTIVE DATA INTEGRATIONS: ", "Mail"} :
       \E k \in DOMAIN systemInstruction : systemInstruction[k] = tok

(***************************************************************************)
(* Claims about the life of one invocation                                 *)
(***************************************************************************)
\* the transitions of the state machine IDLE -> REQUESTING -> STREAMING ->
\* (COMPLETE | FAILED), with FAILED also directly after REQUESTING
Transitions ==
  {<<"idle", "requesting">>, <<"requesting", "streaming">>, <<"requesting", "rejected">>,
   <<"streaming", "resolved">>, <<"streaming", "rejected">>}

\* the transport answers every request and every stream ends or fails
SpecReqLive ==
  /\ SpecReq
  /\ WF_vars(Dispatch)
  /\ WF_vars(Respond)
  /\ WF_vars(StreamEnd \/ StreamError)

Alone(i) == RunLoop(Loop0, invs[i].received)

\* C19: two calls whose lines or chunks arrive interleaved do not influence
\* each other: the onChunk arguments of each call, and the response it
\* resolves with, are those of a call that received the same items alone.
C19_Independent ==
  \A i \in Invocations :
    invs[i].pc \in {"streaming", "resolved", "rejected"} =>
      /\ invs[i].progress = Alone(i).progress
      /\ invs[i].pc = "resolved" => invs[i].result = Response(Alone(i))
      /\ invs[i].pc # "resolved" => invs[i].result = NoResult

\* both calls reported text while the other one was in the middle of its stream
C19_Witness ==
  /\ overlapped
  /\ invs[1].progress = <<D1, D1 \o D2>>
  /\ invs[2].progress = <<D2, D2 \o D1>>
  /\ invs[1].pc = "resolved" /\ invs[1].result.text = D1 \o D2
  /\ invs[2].pc = "streaming"

(***************************************************************************)
(* Claims about the caller                                                 *)
(***************************************************************************)
\* the last message shown is the error message of a failed call
ErrorShown == messages # <<>> /\ messages[Len(messages)].content = FAILURE

\* C20: for every explicit user action (a submit or a regenerate click that
\* runs its handler) at most one performDeepSearch call is made and at most
\* one inference request is sent to a provider, also when the call fails: the
\* catch makes no further call and sends nothing, and shows an error message.
C20_Claim ==
  /\ [](invoked <= started /\ requests <= started)
  /\ [][SearchRejected =>
          (invoked' = invoked /\ requests' = requests /\ calls' \subseteq calls /\ ErrorShown')]_vars

\* C21: at any time at most one performDeepSearch call started from the UI is
\* in flight, and while one is pending appState is SEARCHING, so that submit,
\* quick action and regenerate cannot start a second one before it settles.
C21_Claim ==
  /\ Cardinality(calls) <= 1
  /\ calls # {} => appState = "SEARCHING"

(***************************************************************************)
(* Claims about the endpoint                                               *)
(***************************************************************************)
\* C22: for each OpenAI-compatible provider the url of the request is
\* resolved like the key: an override first (the program has no per-user
\* stored one, so the environment-level VITE_<PROVIDER>_BASE_URL), and only
\* otherwise the hardcoded default of the provider.
C22_Claim ==
  (lookup.done /\ provider \in OpenAICompatible) =>
    lookup.url =
      (IF Truthy(baseUrlEnv) /\ Trim(baseUrlEnv) # <<>> THEN baseUrlEnv
       ELSE DefaultBaseUrl(provider)) \o <<"/chat/completions">>

\* the loop has met the terminal marker of its stream
SentinelSeen ==
  \E i \in 1..Len(received) :
    \/ providerKey = "openai" /\ IsDone(received[i])
    \/ providerKey = "anthropic" /\ received[i].name = "message_stop"

\* C23: every invocation settles once the transport signals the end of the
\* stream or a read error: a stream that is closed is never still waited for,
\* natural closure completes the invocation with or without a terminal
\* marker, a read error makes it fail, and under that signal every started
\* invocation reaches COMPLETE or FAILED.
C23_Terminates ==
  /\ [](transport \in {"closed", "aborted"} => Settled)
  /\ [](transport = "closed" => pc = "resolved" /\ result.settled)
  /\ [](transport = "aborted" => pc = "rejected" /\ ~result.settled)
  /\ (pc = "streaming" ~> Settled)

\* a stream that closed without a terminal marker completed the invocation
C23_Witness ==
  /\ pc = "resolved" /\ transport = "closed"
  /\ providerKey \in {"openai", "anthropic"}
  /\ received # <<>> /\ ~SentinelSeen

(***************************************************************************)
(* Claims about the connection                                             *)
(***************************************************************************)
\* C24: the adapter never leaks the open connection: when an invocation of an
\* SSE adapter has settled after sseLines took the reader of the response
\* body, the stream is no longer open (it has ended or failed, or the reader
\* was cancelled or released).
C24_Claim ==
  (Settled /\ ReaderTaken) => transport # "open"

(***************************************************************************)
(* Claims about the Messages stream                                        *)
(***************************************************************************)
\* the event named by the last `event:` line among the items
EventOf(items) ==
  LET idx == {i \in 1..Len(items) : items[i].kind = "event"} IN
  IF idx = {} THEN "" ELSE items[CHOOSE i \in idx : \A j \in idx : j <= i].name

\* the Messages loop reads one more data line
ReadsData ==
  /\ providerKey = "anthropic" /\ pc = "streaming"
  /\ Len(received') = Len(received) + 1
  /\ received'[Len(received')].kind = "data"

\* the event type the running copy gives a data line: the last `event:` line
\* in part_006, the type field of the payload in part_007
TypeOf(line, before) ==
  IF impl = "part_006" THEN EventOf(before) ELSE line.name

\* what the loop has accumulated and reported stays as it was
TextKept ==
  /\ progress' = progress
  /\ pc' = "streaming" => fullText' = fullText

\* C25 as stated, the event type of a data frame being the one its `event:`
\* line announces: a data frame of an event other than content_block_delta
\* never changes the text and never triggers onProgress, whatever it carries.
C25_Original ==
  [][(ReadsData /\ EventOf(received) # "content_block_delta") => TextKept]_vars

\* C25: in the Messages adapter only frames of type content_block_delta
\* contribute text, the type of a data frame being the last `event:` line in
\* part_006 and the payload's type field in part_007: a data frame of another
\* type never changes the text and never triggers onProgress, whatever it
\* carries, and every onProgress call comes from a frame of that type.
C25_OnlyDeltas ==
  /\ [][(ReadsData /\ TypeOf(received'[Len(received')], received) # "content_block_delta")
          => TextKept]_vars
  /\ [][(providerKey = "anthropic" /\ progress' # progress) =>
          /\ ReadsData
          /\ TypeOf(received'[Len(received')], received) = "content_block_delta"
          /\ received'[Len(received')].text # <<>>]_vars

\* a data frame of another type that carried text was read and nothing was
\* reported
C25_Witness ==
  /\ providerKey = "anthropic" /\ pc = "streaming"
  /\ progress = <<>> /\ fullText = <<>>
  /\ \E i \in 1..Len(received) :
       /\ received[i].kind = "data" /\ received[i].text # <<>>
       /\ TypeOf(received[i], SubSeq(received, 1, i - 1)) # "content_block_delta"

\* C26: once the user has discarded an in-flight request (its placeholder is
\* no longer among the messages) and a later request is pending, the
\* settlement of the discarded request changes neither the messages nor
\* appState, which belong to the later request.
C26_Claim ==
  [][\A c \in calls :
       (c.sent /\ c \notin calls' /\ Cardinality(calls') < Cardinality(calls)
          /\ c.aiMsgId \notin IdSet(messages) /\ calls' # {})
       => (messages' = messages /\ appState' = appState)]_vars

\* a call made by a Regenerate click: the turn it answers is an older message,
\* not the user message created together with its placeholder
FromRegenerate(c) == c.turn # c.aiMsgId - 1

\* C27: the history a Regenerate click passes to performDeepSearch holds only
\* messages that precede the user turn being regenerated: not that turn, not
\* the answer being regenerated, no later message.
C27_Claim ==
  \A c \in calls :
    FromRegenerate(c) =>
      \A i \in 1..Len(c.historyIds) : c.historyIds[i] \notin ({c.turn} \cup c.following)

\* the parts of the current turn that represent an attachment: a text part
\* that names it, or an inline payload that carries its data
PartsOf(att) ==
  {j \in DOMAIN UserTurn.parts :
     LET part == UserTurn.parts[j] IN
     IF "text" \in DOMAIN part THEN Mentions(part.text, att.name)
     ELSE part.inlineData.data = att.data}

\* C28: in the request built for the Gemini adapter each attachment of the
\* current turn is represented exactly once: a text attachment not as its own
\* delimited part and again inside the query text, a binary one not as an
\* inline payload (or a note) and again as a placeholder.
C28_Claim ==
  (request # NoRequest /\ providerKey = "google") =>
    \A i \in DOMAIN attachments : Cardinality(PartsOf(attachments[i])) = 1

\* a message is still shown as streaming or thinking
StillStreaming == \E i \in DOMAIN messages : messages[i].isStreaming

\* C29: when a request started from the UI (handleSearch or handleRegenerate)
\* has settled, with success or with any failure, and no other request is
\* pending, appState is not SEARCHING and no message is still flagged as
\* streaming or thinking.
C29_Claim ==
  [][((SearchResolved \/ SearchRejected) /\ calls' = {}) =>
       (appState' # "SEARCHING" /\ ~StillStreaming')]_vars

(***************************************************************************)
(* Claims about the session store                                          *)
(***************************************************************************)
\* the list holds the session that was passed in
Holds(list) == \E i \in 1..Len(list) : list[i] = session

\* C30: saveSession never evicts the session it is saving: whatever the
\* stored list and the pattern of quota errors, the list it writes (what a
\* successful write persists) and returns holds the session passed in.
C30_Claim ==
  save_pc \in {"setItem", "returned"} => Holds(sessions)

=============================================================================
